---- MODULE Spec2Model ----
(***************************************************************************)
(* mongoSQL: a SQL-like engine over MongoDB (src/mongoSQL.js).             *)
(*                                                                         *)
(* The model follows one MongoSQL instance: its table registry, its active *)
(* session, and the query() calls made on it.  A query() call tokenizes    *)
(* and parses the statement, binds parameters, lowers the AST to a store   *)
(* command and issues it.  Statement texts are given as the token sequence *)
(* the Tokenizer produces for them.                                        *)
(*                                                                         *)
(* JavaScript values are tagged records [t |-> kind, v |-> payload] so     *)
(* that values of different kinds can be compared.  A thrown Error is the  *)
(* field err of a result record ("" when nothing was thrown).              *)
(***************************************************************************)
EXTENDS Integers, Sequences, FiniteSets, TLC

VARIABLES
    tables,     \* this.tables: the registered table names (lower-cased keys)
    session,    \* this.session: 0 for null, else the id of the active ClientSession
    hasClient,  \* whether the instance was constructed with a client
    issued,     \* the commands the running/last query() call sent to the store
    call,       \* the arguments of the last query() call, or NoCall
    ast,        \* the AST the last query() call parsed (its parser result)
    outcome,    \* how the last query() call ended: [err, posIndex, trace]
    nSessions,  \* number of sessions the client has started so far
    tokenizer,  \* a Tokenizer a caller drives by hand, or NoCall
    handed,     \* what that tokenizer's peek() and next() calls handed back, in order
    pending     \* the query() calls issued without awaiting them, in order

vars ==
    <<tables, session, hasClient, issued, call, ast, outcome, nSessions, tokenizer, handed,
      pending>>

(***************************************************************************)
(* JavaScript values                                                       *)
(***************************************************************************)
JSNull == [t |-> "null"]
JSUndefined == [t |-> "undefined"]
Str(s) == [t |-> "str", v |-> s]
Num(n) == [t |-> "num", v |-> n]
Dec(w, f) == [t |-> "dec", whole |-> w, frac |-> f]
NaN == [t |-> "nan"]
Bool(b) == [t |-> "bool", v |-> b]
Arr(s) == [t |-> "arr", v |-> s]
Obj(f) == [t |-> "obj", v |-> f]
Fn(name) == [t |-> "function", v |-> name]

\* x is falsy in a JavaScript condition (x || y, if (x), !x).
Falsy(x) ==
    \/ x.t \in {"null", "undefined", "nan"}
    \/ x.t = "str" /\ x.v = ""
    \/ x.t = "num" /\ x.v = 0
    \/ x.t = "bool" /\ x.v = FALSE

\* a || b
OrElse(a, b) == IF Falsy(a) THEN b ELSE a

\* a ?? b
Coalesce(a, b) == IF a.t \in {"null", "undefined"} THEN b ELSE a

\* Number.isFinite(x)
IsFinite(x) == x.t \in {"num", "dec"}

(***************************************************************************)
(* String.prototype.toUpperCase / toLowerCase over the identifiers that    *)
(* occur in the statements of the model: <<word, upper, lower>>.           *)
(***************************************************************************)
Spellings == {
    <<"SELECT", "SELECT", "select">>, <<"select", "SELECT", "select">>,
    <<"FROM", "FROM", "from">>, <<"from", "FROM", "from">>,
    <<"WHERE", "WHERE", "where">>, <<"where", "WHERE", "where">>,
    <<"GROUP", "GROUP", "group">>, <<"BY", "BY", "by">>,
    <<"HAVING", "HAVING", "having">>, <<"ORDER", "ORDER", "order">>,
    <<"LIMIT", "LIMIT", "limit">>, <<"OFFSET", "OFFSET", "offset">>,
    <<"JOIN", "JOIN", "join">>, <<"INNER", "INNER", "inner">>,
    <<"LEFT", "LEFT", "left">>, <<"OUTER", "OUTER", "outer">>,
    <<"ON", "ON", "on">>, <<"AS", "AS", "as">>, <<"as", "AS", "as">>,
    <<"AND", "AND", "and">>, <<"OR", "OR", "or">>, <<"NOT", "NOT", "not">>,
    <<"IN", "IN", "in">>, <<"BETWEEN", "BETWEEN", "between">>,
    <<"LIKE", "LIKE", "like">>, <<"IS", "IS", "is">>,
    <<"NULL", "NULL", "null">>, <<"TRUE", "TRUE", "true">>,
    <<"true", "TRUE", "true">>, <<"FALSE", "FALSE", "false">>,
    <<"ASC", "ASC", "asc">>, <<"DESC", "DESC", "desc">>,
    <<"INSERT", "INSERT", "insert">>, <<"INTO", "INTO", "into">>,
    <<"VALUES", "VALUES", "values">>, <<"UPDATE", "UPDATE", "update">>,
    <<"SET", "SET", "set">>, <<"DELETE", "DELETE", "delete">>,
    <<"BEGIN", "BEGIN", "begin">>, <<"COMMIT", "COMMIT", "commit">>,
    <<"ROLLBACK", "ROLLBACK", "rollback">>,
    <<"COUNT", "COUNT", "count">>, <<"count", "COUNT", "count">>,
    <<"SUM", "SUM", "sum">>, <<"AVG", "AVG", "avg">>,
    <<"MIN", "MIN", "min">>, <<"MAX", "MAX", "max">>,
    <<"LOWER", "LOWER", "lower">>, <<"UPPER", "UPPER", "upper">>,
    <<"CONCAT", "CONCAT", "concat">>, <<"COALESCE", "COALESCE", "coalesce">>,
    <<"ABS", "ABS", "abs">>, <<"ROUND", "ROUND", "round">>,
    <<"NEG", "NEG", "neg">>,
    <<"users", "USERS", "users">>, <<"Users", "USERS", "users">>,
    <<"orders", "ORDERS", "orders">>, <<"products", "PRODUCTS", "products">>,
    <<"items", "ITEMS", "items">>, <<"ghosts", "GHOSTS", "ghosts">>,
    <<"u", "U", "u">>, <<"o", "O", "o">>, <<"i", "I", "i">>,
    <<"g", "G", "g">>, <<"a", "A", "a">>, <<"b", "B", "b">>, <<"c", "C", "c">>,
    <<"name", "NAME", "name">>, <<"age", "AGE", "age">>,
    <<"city", "CITY", "city">>, <<"country", "COUNTRY", "country">>,
    <<"_id", "_ID", "_id">>, <<"userId", "USERID", "userid">>,
    <<"orderId", "ORDERID", "orderid">>,
    <<"price", "PRICE", "price">>, <<"category", "CATEGORY", "category">>,
    <<"total", "TOTAL", "total">>, <<"spent", "SPENT", "spent">>,
    <<"n", "N", "n">>, <<"vip", "VIP", "vip">>, <<"xyz", "XYZ", "xyz">>,
    <<"p", "P", "p">>, <<"productId", "PRODUCTID", "productid">>,
    <<"p", "P", "p">>, <<"productId", "PRODUCTID", "productid">>,
    <<"INNER JOIN", "INNER JOIN", "inner join">>,
    <<"LEFT JOIN", "LEFT JOIN", "left join">>,
    <<"LEFT OUTER", "LEFT OUTER", "left outer">>,
    <<"LEFT OUTER JOIN", "LEFT OUTER JOIN", "left outer join">> }

\* The lower-case spelling of a word has the same upper-case and lower-case forms.
Words == Spellings \cup { <<w[3], w[2], w[3]>> : w \in Spellings }

UpperOf == [s \in {w[1] : w \in Words} |-> (CHOOSE w \in Words : w[1] = s)[2]]
LowerOf == [s \in {w[1] : w \in Words} |-> (CHOOSE w \in Words : w[1] = s)[3]]
ToUpperCase(s) == UpperOf[s]
ToLowerCase(s) == LowerOf[s]

(***************************************************************************)
(* Tokens, as Tokenizer.next() returns them.  A number token carries its   *)
(* lexeme as a sequence of characters; Number(lexeme) is NumberOf.         *)
(***************************************************************************)
Id(w) == [type |-> "ident", value |-> w]
Op(o) == [type |-> "op", value |-> o]
NumTok(lexeme) == [type |-> "number", value |-> lexeme]
StrTok(s) == [type |-> "string", value |-> s]
ParamNamed(name) == [type |-> "param_named", value |-> name]
ParamPos == [type |-> "param_pos"]
Eof == [type |-> "eof"]

Digits == <<"0", "1", "2", "3", "4", "5", "6", "7", "8", "9">>
DigitVal(c) == (CHOOSE k \in 1..Len(Digits) : Digits[k] = c) - 1

RECURSIVE IntOf(_)
IntOf(ds) ==
    IF ds = <<>> THEN 0
    ELSE 10 * IntOf(SubSeq(ds, 1, Len(ds) - 1)) + DigitVal(ds[Len(ds)])

RECURSIVE StripZeros(_)
StripZeros(ds) ==
    IF ds # <<>> /\ ds[Len(ds)] = "0" THEN StripZeros(SubSeq(ds, 1, Len(ds) - 1))
    ELSE ds

\* Number(lexeme) for a lexeme of digits and dots that starts with a digit.
NumberOf(lexeme) ==
    LET dots == {k \in 1..Len(lexeme) : lexeme[k] = "."} IN
    IF Cardinality(dots) > 1 THEN NaN
    ELSE IF dots = {} THEN Num(IntOf(lexeme))
    ELSE LET d == CHOOSE k \in dots : TRUE
             frac == StripZeros(SubSeq(lexeme, d + 1, Len(lexeme)))
             whole == IntOf(SubSeq(lexeme, 1, d - 1))
         IN IF frac = <<>> THEN Num(whole) ELSE Dec(whole, frac)

(***************************************************************************)
(* Tokenizer position p over the token sequence ts: peek() is the token at *)
(* p, next() returns it and moves on; past the end both return eof.        *)
(***************************************************************************)
peek(ts, p) == IF p <= Len(ts) THEN ts[p] ELSE Eof
advance(ts, p) == IF p <= Len(ts) THEN p + 1 ELSE p

\* Results of parser operations: the node n and the position p after it,
\* or the message of the Error thrown.
Ok(n, p) == [err |-> "", n |-> n, p |-> p]
Throw(msg) == [err |-> msg]

\* The tokenizer reads the text only when the parser asks for a token.  A
\* character c it cannot start a token with stands in ts as Unexpected(c):
\* asking for that token, by peek() or next(), throws.
Unexpected(c) == [type |-> "error", char |-> c]
LexError(t) == "Unexpected character: " \o t.char

\* What the code that asked for the token at p and found no use for it does:
\* the tokenizer's throw comes first.
ThrowAt(ts, p, msg) ==
    IF peek(ts, p).type = "error" THEN Throw(LexError(peek(ts, p))) ELSE Throw(msg)

\* The result r of code that ends by a peek() at p which matches nothing.
Peeked(ts, p, r) ==
    IF peek(ts, p).type = "error" THEN Throw(LexError(peek(ts, p))) ELSE r

\* JavaScript evaluates the arguments of a call before the call: Run(f, args)
\* is the function or method f of the program applied to the values args.
RECURSIVE Run(_, _)

_expectIdent(ts, p) ==
    LET t == peek(ts, p) IN
    IF t.type # "ident" THEN ThrowAt(ts, p, "Expected identifier") ELSE Ok(t, advance(ts, p))

_peekIdent(ts, p) == peek(ts, p).type = "ident"

_tryKW(ts, p, kw) ==
    LET t == peek(ts, p) IN
    t.type = "ident" /\ ToUpperCase(t.value) = ToUpperCase(kw)

\* Position after _eatKW(kw); the call returned true iff the position moved.
_eatKW(ts, p, kw) == IF Run("_tryKW", <<ts, p, kw>>) THEN advance(ts, p) ELSE p

_expectKW(ts, p, kw) ==
    LET r == Run("_expectIdent", <<ts, p>>) IN
    IF r.err # "" THEN r
    ELSE IF ToUpperCase(r.n.value) # ToUpperCase(kw) THEN Throw("Expected " \o kw)
    ELSE r

_isOp(ts, p, op) ==
    LET t == peek(ts, p) IN t.type = "op" /\ t.value = op

_expectOp(ts, p, op) ==
    IF ~Run("_isOp", <<ts, p, op>>) THEN ThrowAt(ts, p, "Expected '" \o op \o "'")
    ELSE Ok(peek(ts, p), advance(ts, p))

\* Position after _eatOp(op); the call returned true iff the position moved.
_eatOp(ts, p, op) == IF Run("_isOp", <<ts, p, op>>) THEN advance(ts, p) ELSE p

(***************************************************************************)
(* Parser: expressions (recursive descent, one token of lookahead).        *)
(* A positional parameter node also records the token position `at` where  *)
(* the `?` stood; the program does not keep it, and nothing but `trace`    *)
(* (the record of which `?` received which positional value) reads it.     *)
(***************************************************************************)

\* do { args.push(this.parseExpr()); } while (this._eatOp(','));
argsLoop(ts, p, acc) ==
    LET r == Run("parseExpr", <<ts, p>>) IN
    IF r.err # "" THEN r
    ELSE IF Run("_isOp", <<ts, r.p, ",">>) THEN Run("argsLoop", <<ts, advance(ts, r.p), Append(acc, r.n)>>)
    ELSE Ok(Append(acc, r.n), r.p)

parsePrimary(ts, p) ==
    LET t == peek(ts, p) IN
    CASE t.type = "number" ->
            Ok([type |-> "Number", value |-> NumberOf(t.value)], advance(ts, p))
      [] t.type = "string" ->
            Ok([type |-> "String", value |-> t.value], advance(ts, p))
      [] t.type = "param_pos" ->
            Ok([type |-> "Param", mode |-> "pos", at |-> p], advance(ts, p))
      [] t.type = "param_named" ->
            Ok([type |-> "Param", mode |-> "named", name |-> t.value], advance(ts, p))
      [] t.type = "ident" ->
            LET id == t.value
                up == ToUpperCase(id)
                q == advance(ts, p)
            IN  IF up = "NULL" THEN Ok([type |-> "Null"], q)
                ELSE IF up = "TRUE" THEN Ok([type |-> "Boolean", value |-> TRUE], q)
                ELSE IF up = "FALSE" THEN Ok([type |-> "Boolean", value |-> FALSE], q)
                ELSE IF Run("_isOp", <<ts, q, "(">>) THEN
                    LET q1 == advance(ts, q) IN
                    IF Run("_isOp", <<ts, q1, ")">>)
                    THEN Ok([type |-> "Call", name |-> id, args |-> <<>>], advance(ts, q1))
                    ELSE LET a == Run("argsLoop", <<ts, q1, <<>> >>) IN
                         IF a.err # "" THEN a
                         ELSE LET c == Run("_expectOp", <<ts, a.p, ")">>) IN
                              IF c.err # "" THEN c
                              ELSE Ok([type |-> "Call", name |-> id, args |-> a.n], c.p)
                ELSE IF Run("_isOp", <<ts, q, ".">>) THEN
                    LET r2 == Run("_expectIdent", <<ts, advance(ts, q)>>) IN
                    IF r2.err # "" THEN r2
                    ELSE Ok([type |-> "Field", table |-> id, name |-> r2.n.value], r2.p)
                ELSE Ok([type |-> "Field", name |-> id], q)
      [] t.type = "op" /\ t.value = "(" ->
            LET e == Run("parseExpr", <<ts, advance(ts, p)>>) IN
            IF e.err # "" THEN e
            ELSE LET c == Run("_expectOp", <<ts, e.p, ")">>) IN
                 IF c.err # "" THEN c ELSE Ok(e.n, c.p)
      [] t.type = "op" /\ t.value = "*" -> Ok([type |-> "All"], advance(ts, p))
      [] OTHER -> ThrowAt(ts, p, "Unexpected token in expression")

parseValue(ts, p) == Run("parsePrimary", <<ts, p>>)

\* do { values.push(this.parseValue()); } while (this._eatOp(','));
valuesLoop(ts, p, acc) ==
    LET r == Run("parseValue", <<ts, p>>) IN
    IF r.err # "" THEN r
    ELSE IF Run("_isOp", <<ts, r.p, ",">>) THEN Run("valuesLoop", <<ts, advance(ts, r.p), Append(acc, r.n)>>)
    ELSE Ok(Append(acc, r.n), r.p)

parseValueList(ts, p) == Run("valuesLoop", <<ts, p, <<>> >>)

parseUnary(ts, p) ==
    IF Run("_isOp", <<ts, p, "-">>) THEN
        LET x == Run("parsePrimary", <<ts, advance(ts, p)>>) IN
        IF x.err # "" THEN x
        ELSE Ok([type |-> "Call", name |-> "NEG", args |-> <<x.n>>], x.p)
    ELSE Run("parsePrimary", <<ts, p>>)

mulLoop(ts, left, p) ==
    IF Run("_isOp", <<ts, p, "*">>) \/ Run("_isOp", <<ts, p, "/">>) THEN
        LET op == peek(ts, p).value
            r == Run("parseUnary", <<ts, advance(ts, p)>>)
        IN  IF r.err # "" THEN r
            ELSE Run("mulLoop", <<ts, [type |-> "Binary", op |-> op, left |-> left, right |-> r.n], r.p>>)
    ELSE Ok(left, p)

parseMul(ts, p) ==
    LET l == Run("parseUnary", <<ts, p>>) IN
    IF l.err # "" THEN l ELSE Run("mulLoop", <<ts, l.n, l.p>>)

addLoop(ts, left, p) ==
    IF Run("_isOp", <<ts, p, "+">>) \/ Run("_isOp", <<ts, p, "-">>) THEN
        LET op == peek(ts, p).value
            r == Run("parseMul", <<ts, advance(ts, p)>>)
        IN  IF r.err # "" THEN r
            ELSE Run("addLoop", <<ts, [type |-> "Binary", op |-> op, left |-> left, right |-> r.n], r.p>>)
    ELSE Ok(left, p)

parseAdd(ts, p) ==
    LET l == Run("parseMul", <<ts, p>>) IN
    IF l.err # "" THEN l ELSE Run("addLoop", <<ts, l.n, l.p>>)

ComparisonOps == {"=", "!=", "<>", ">", ">=", "<", "<="}

parseComparison(ts, p) ==
    LET l == Run("parseAdd", <<ts, p>>) IN
    IF l.err # "" THEN l ELSE
    LET left == l.n
        next == peek(ts, l.p)
        kw == IF next.type = "ident" THEN ToUpperCase(next.value) ELSE ""
        q == advance(ts, l.p)
    IN  IF kw = "IS" THEN
            LET isNot == Run("_tryKW", <<ts, q, "NOT">>)
                n == Run("_expectKW", <<ts, Run("_eatKW", <<ts, q, "NOT">>), "NULL">>)
            IN  IF n.err # "" THEN n
                ELSE Ok([type |-> "Binary", op |-> IF isNot THEN "IS NOT" ELSE "IS",
                         left |-> left, right |-> [kind |-> "NULL"]], n.p)
        ELSE IF kw = "IN" THEN
            LET o == Run("_expectOp", <<ts, q, "(">>) IN
            IF o.err # "" THEN o
            ELSE IF Run("_isOp", <<ts, o.p, ")">>) THEN
                Ok([type |-> "Binary", op |-> "IN", left |-> left,
                    right |-> [type |-> "Array", values |-> <<>>]], advance(ts, o.p))
            ELSE LET vs == Run("valuesLoop", <<ts, o.p, <<>> >>) IN
                 IF vs.err # "" THEN vs
                 ELSE LET c == Run("_expectOp", <<ts, vs.p, ")">>) IN
                      IF c.err # "" THEN c
                      ELSE Ok([type |-> "Binary", op |-> "IN", left |-> left,
                               right |-> [type |-> "Array", values |-> vs.n]], c.p)
        ELSE IF kw = "BETWEEN" THEN
            LET from == Run("parseValue", <<ts, q>>) IN
            IF from.err # "" THEN from
            ELSE LET a == Run("_expectKW", <<ts, from.p, "AND">>) IN
                 IF a.err # "" THEN a
                 ELSE LET to == Run("parseValue", <<ts, a.p>>) IN
                      IF to.err # "" THEN to
                      ELSE Ok([type |-> "Binary", op |-> "BETWEEN", left |-> left,
                               right |-> [type |-> "Between", from |-> from.n, to |-> to.n]],
                              to.p)
        ELSE IF kw = "LIKE" THEN
            LET pat == Run("parseValue", <<ts, q>>) IN
            IF pat.err # "" THEN pat
            ELSE Ok([type |-> "Binary", op |-> "LIKE", left |-> left, right |-> pat.n], pat.p)
        ELSE IF next.type = "op" /\ next.value \in ComparisonOps THEN
            LET r == Run("parseAdd", <<ts, q>>) IN
            IF r.err # "" THEN r
            ELSE Ok([type |-> "Binary", op |-> next.value, left |-> left, right |-> r.n], r.p)
        ELSE Ok(left, l.p)

parseNot(ts, p) ==
    IF Run("_tryKW", <<ts, p, "NOT">>) THEN
        LET e == Run("parseComparison", <<ts, advance(ts, p)>>) IN
        IF e.err # "" THEN e
        ELSE Ok([type |-> "Unary", op |-> "NOT", expr |-> e.n], e.p)
    ELSE Run("parseComparison", <<ts, p>>)

andLoop(ts, left, p) ==
    IF Run("_tryKW", <<ts, p, "AND">>) THEN
        LET r == Run("parseNot", <<ts, advance(ts, p)>>) IN
        IF r.err # "" THEN r
        ELSE Run("andLoop", <<ts, [type |-> "Binary", op |-> "AND", left |-> left, right |-> r.n], r.p>>)
    ELSE Ok(left, p)

parseAnd(ts, p) ==
    LET l == Run("parseNot", <<ts, p>>) IN
    IF l.err # "" THEN l ELSE Run("andLoop", <<ts, l.n, l.p>>)

\* The OR loop taking a NOT-level operand on its right.
orLoopTight(ts, left, p) ==
    IF Run("_tryKW", <<ts, p, "OR">>) THEN
        LET r == Run("parseNot", <<ts, advance(ts, p)>>) IN
        IF r.err # "" THEN r
        ELSE Run("orLoop", <<ts, [type |-> "Binary", op |-> "OR", left |-> left, right |-> r.n], r.p>>)
    ELSE Peeked(ts, p, Ok(left, p))

orLoop(ts, left, p) ==
    IF Run("_tryKW", <<ts, p, "OR">>) THEN
        LET r == Run("parseAnd", <<ts, advance(ts, p)>>) IN
        IF r.err # "" THEN r
        ELSE Run("orLoop", <<ts, [type |-> "Binary", op |-> "OR", left |-> left, right |-> r.n], r.p>>)
    ELSE Peeked(ts, p, Ok(left, p))

parseOr(ts, p) ==
    LET l == Run("parseAnd", <<ts, p>>) IN
    IF l.err # "" THEN l ELSE Run("orLoop", <<ts, l.n, l.p>>)

parseExpr(ts, p) == Run("parseOr", <<ts, p>>)

(***************************************************************************)
(* Parser: statements                                                      *)
(***************************************************************************)
parseTableRef(ts, p) ==
    LET r == Run("_expectIdent", <<ts, p>>) IN
    IF r.err # "" THEN r
    ELSE IF Run("_tryKW", <<ts, r.p, "AS">>) THEN
        LET a == Run("_expectIdent", <<ts, advance(ts, r.p)>>) IN
        IF a.err # "" THEN a
        ELSE Ok([type |-> "Table", name |-> r.n.value, alias |-> Str(a.n.value)], a.p)
    ELSE IF Run("_peekIdent", <<ts, r.p>>) THEN
        Ok([type |-> "Table", name |-> r.n.value, alias |-> Str(peek(ts, r.p).value)],
           advance(ts, r.p))
    ELSE Ok([type |-> "Table", name |-> r.n.value, alias |-> JSNull], r.p)

parseTableRefNoAlias(ts, p) ==
    LET r == Run("_expectIdent", <<ts, p>>) IN
    IF r.err # "" THEN r ELSE Ok([type |-> "Table", name |-> r.n.value], r.p)

parseField(ts, p) ==
    LET a == Run("_expectIdent", <<ts, p>>) IN
    IF a.err # "" THEN a
    ELSE IF Run("_isOp", <<ts, a.p, ".">>) THEN
        LET b == Run("_expectIdent", <<ts, advance(ts, a.p)>>) IN
        IF b.err # "" THEN b
        ELSE Ok([type |-> "Field", table |-> a.n.value, name |-> b.n.value], b.p)
    ELSE Ok([type |-> "Field", name |-> a.n.value], a.p)

parseSelectItem(ts, p) ==
    IF Run("_isOp", <<ts, p, "*">>) THEN Ok([expr |-> [type |-> "All"]], advance(ts, p))
    ELSE
    LET e == Run("parseExpr", <<ts, p>>) IN
    IF e.err # "" THEN e
    ELSE IF Run("_tryKW", <<ts, e.p, "AS">>) THEN
        LET a == Run("_expectIdent", <<ts, advance(ts, e.p)>>) IN
        IF a.err # "" THEN a
        ELSE Ok([expr |-> e.n, alias |-> Str(a.n.value)], a.p)
    ELSE IF Run("_peekIdent", <<ts, e.p>>) THEN
        Ok([expr |-> e.n, alias |-> Str(peek(ts, e.p).value)], advance(ts, e.p))
    ELSE Ok([expr |-> e.n, alias |-> JSNull], e.p)

selectListLoop(ts, p, cols) ==
    LET r == Run("parseSelectItem", <<ts, p>>) IN
    IF r.err # "" THEN r
    ELSE IF Run("_isOp", <<ts, r.p, ",">>) THEN Run("selectListLoop", <<ts, advance(ts, r.p), Append(cols, r.n)>>)
    ELSE Ok(Append(cols, r.n), r.p)

parseSelectList(ts, p) == Run("selectListLoop", <<ts, p, <<>> >>)

orderByLoop(ts, p, list) ==
    LET e == Run("parseExpr", <<ts, p>>) IN
    IF e.err # "" THEN e
    ELSE
    LET dir == IF Run("_tryKW", <<ts, e.p, "ASC">>) THEN "ASC"
               ELSE IF Run("_tryKW", <<ts, e.p, "DESC">>) THEN "DESC" ELSE "ASC"
        q == IF Run("_tryKW", <<ts, e.p, "ASC">>) THEN advance(ts, e.p) ELSE Run("_eatKW", <<ts, e.p, "DESC">>)
        item == [expr |-> e.n, dir |-> dir]
    IN  IF Run("_isOp", <<ts, q, ",">>) THEN Run("orderByLoop", <<ts, advance(ts, q), Append(list, item)>>)
        ELSE Ok(Append(list, item), q)

parseOrderByList(ts, p) == Run("orderByLoop", <<ts, p, <<>> >>)

fieldListLoop(ts, p, list) ==
    LET f == Run("parseField", <<ts, p>>) IN
    IF f.err # "" THEN f
    ELSE IF Run("_isOp", <<ts, f.p, ",">>) THEN Run("fieldListLoop", <<ts, advance(ts, f.p), Append(list, f.n)>>)
    ELSE Ok(Append(list, f.n), f.p)

parseFieldList(ts, p) == Run("fieldListLoop", <<ts, p, <<>> >>)

identListLoop(ts, p, ids) ==
    LET r == Run("_expectIdent", <<ts, p>>) IN
    IF r.err # "" THEN r
    ELSE IF Run("_isOp", <<ts, r.p, ",">>) THEN Run("identListLoop", <<ts, advance(ts, r.p), Append(ids, r.n.value)>>)
    ELSE Ok(Append(ids, r.n.value), r.p)

parseIdentList(ts, p) == Run("identListLoop", <<ts, p, <<>> >>)

parseNumberLit(ts, p) ==
    LET n == peek(ts, p) IN
    IF n.type # "number" THEN ThrowAt(ts, p, "Expected number")
    ELSE Ok(NumberOf(n.value), advance(ts, p))

parseJoinCondition(ts, p) ==
    LET left == Run("parseField", <<ts, p>>) IN
    IF left.err # "" THEN left
    ELSE LET op == Run("_expectOp", <<ts, left.p, "=">>) IN
         IF op.err # "" THEN op
         ELSE LET right == Run("parseField", <<ts, op.p>>) IN
              IF right.err # "" THEN right
              ELSE Ok([type |-> "Binary", op |-> op.n.value,
                       left |-> left.n, right |-> right.n], right.p)

\* The join loop of parseSelect: the loop condition, then the join type from
\* the first of the _eatKW calls that succeeds.
joinAhead(ts, p) ==
    \/ Run("_tryKW", <<ts, p, "JOIN">>)
    \/ Run("_tryKW", <<ts, p, "INNER JOIN">>)
    \/ Run("_tryKW", <<ts, p, "LEFT JOIN">>)
    \/ Run("_tryKW", <<ts, p, "LEFT OUTER JOIN">>)

joinType(ts, p) ==
    IF Run("_tryKW", <<ts, p, "LEFT">>) THEN Ok("LEFT", advance(ts, p))
    ELSE IF Run("_tryKW", <<ts, p, "LEFT OUTER">>) THEN Ok("LEFT", advance(ts, p))
    ELSE IF Run("_tryKW", <<ts, p, "INNER">>) THEN Ok("INNER", advance(ts, p))
    ELSE IF Run("_tryKW", <<ts, p, "JOIN">>) THEN Ok("INNER", advance(ts, p))
    ELSE LET j == Run("_expectKW", <<ts, p, "JOIN">>) IN
         IF j.err # "" THEN j ELSE Ok("INNER", j.p)

joinLoop(ts, p, joins) ==
    IF ~Run("joinAhead", <<ts, p>>) THEN Ok(joins, p)
    ELSE
    LET ty == Run("joinType", <<ts, p>>) IN
    IF ty.err # "" THEN ty
    ELSE LET table == Run("parseTableRef", <<ts, ty.p>>) IN
         IF table.err # "" THEN table
         ELSE LET on == Run("_expectKW", <<ts, table.p, "ON">>) IN
              IF on.err # "" THEN on
              ELSE LET cond == Run("parseJoinCondition", <<ts, on.p>>) IN
                   IF cond.err # "" THEN cond
                   ELSE Run("joinLoop", <<ts, cond.p,
                            Append(joins, [type |-> ty.n, table |-> table.n, on |-> cond.n])>>)

\* The optional clauses of parseSelect, in the order the code tries them.
parseWhere(ts, p) ==
    IF Run("_tryKW", <<ts, p, "WHERE">>) THEN Run("parseExpr", <<ts, advance(ts, p)>>)
    ELSE Peeked(ts, p, Ok(JSNull, p))

parseGroupBy(ts, p) ==
    IF Run("_tryKW", <<ts, p, "GROUP">>) THEN
        LET by == Run("_expectKW", <<ts, advance(ts, p), "BY">>) IN
        IF by.err # "" THEN by ELSE Run("parseFieldList", <<ts, by.p>>)
    ELSE Ok(<<>>, p)

parseHaving(ts, p) ==
    IF Run("_tryKW", <<ts, p, "HAVING">>) THEN Run("parseExpr", <<ts, advance(ts, p)>>) ELSE Ok(JSNull, p)

parseOrderBy(ts, p) ==
    IF Run("_tryKW", <<ts, p, "ORDER">>) THEN
        LET by == Run("_expectKW", <<ts, advance(ts, p), "BY">>) IN
        IF by.err # "" THEN by ELSE Run("parseOrderByList", <<ts, by.p>>)
    ELSE Ok(<<>>, p)

parseLimit(ts, p) ==
    IF Run("_tryKW", <<ts, p, "LIMIT">>) THEN Run("parseNumberLit", <<ts, advance(ts, p)>>) ELSE Ok(JSNull, p)

parseOffset(ts, p) ==
    IF Run("_tryKW", <<ts, p, "OFFSET">>) THEN Run("parseNumberLit", <<ts, advance(ts, p)>>)
    ELSE Peeked(ts, p, Ok(JSNull, p))

parseSelect(ts, p) ==
    LET columns == Run("parseSelectList", <<ts, p>>) IN
    IF columns.err # "" THEN columns ELSE
    LET fromKW == Run("_expectKW", <<ts, columns.p, "FROM">>) IN
    IF fromKW.err # "" THEN fromKW ELSE
    LET from == Run("parseTableRef", <<ts, fromKW.p>>) IN
    IF from.err # "" THEN from ELSE
    LET joins == Run("joinLoop", <<ts, from.p, <<>> >>) IN
    IF joins.err # "" THEN joins ELSE
    LET where == Run("parseWhere", <<ts, joins.p>>) IN
    IF where.err # "" THEN where ELSE
    LET groupBy == Run("parseGroupBy", <<ts, where.p>>) IN
    IF groupBy.err # "" THEN groupBy ELSE
    LET having == Run("parseHaving", <<ts, groupBy.p>>) IN
    IF having.err # "" THEN having ELSE
    LET orderBy == Run("parseOrderBy", <<ts, having.p>>) IN
    IF orderBy.err # "" THEN orderBy ELSE
    LET limit == Run("parseLimit", <<ts, orderBy.p>>) IN
    IF limit.err # "" THEN limit ELSE
    LET offset == Run("parseOffset", <<ts, limit.p>>) IN
    IF offset.err # "" THEN offset ELSE
    Ok([type |-> "SELECT", columns |-> columns.n, from |-> from.n, joins |-> joins.n,
        where |-> where.n, groupBy |-> groupBy.n, having |-> having.n,
        orderBy |-> orderBy.n, limit |-> limit.n, offset |-> offset.n], offset.p)

\* A line-for-line copy of parseSelect in the source.
parseSelectAfterInitial(ts, p) == Run("parseSelect", <<ts, p>>)

\* do { '(' parseValueList ')' } while (this._eatOp(','));
rowsLoop(ts, p, rows) ==
    LET o == Run("_expectOp", <<ts, p, "(">>) IN
    IF o.err # "" THEN o ELSE
    LET vs == Run("parseValueList", <<ts, o.p>>) IN
    IF vs.err # "" THEN vs ELSE
    LET c == Run("_expectOp", <<ts, vs.p, ")">>) IN
    IF c.err # "" THEN c
    ELSE IF Run("_isOp", <<ts, c.p, ",">>) THEN Run("rowsLoop", <<ts, advance(ts, c.p), Append(rows, vs.n)>>)
    ELSE Peeked(ts, c.p, Ok(Append(rows, vs.n), c.p))

parseInsertColumns(ts, p) ==
    IF Run("_isOp", <<ts, p, "(">>) THEN
        LET ids == Run("parseIdentList", <<ts, advance(ts, p)>>) IN
        IF ids.err # "" THEN ids
        ELSE LET c == Run("_expectOp", <<ts, ids.p, ")">>) IN
             IF c.err # "" THEN c
             ELSE Ok([k \in 1..Len(ids.n) |-> [type |-> "Field", name |-> ids.n[k]]], c.p)
    ELSE Ok(<<>>, p)

parseInsert(ts, p) ==
    LET intoKW == Run("_expectKW", <<ts, p, "INTO">>) IN
    IF intoKW.err # "" THEN intoKW ELSE
    LET into == Run("parseTableRefNoAlias", <<ts, intoKW.p>>) IN
    IF into.err # "" THEN into ELSE
    LET columns == Run("parseInsertColumns", <<ts, into.p>>) IN
    IF columns.err # "" THEN columns
    ELSE IF Run("_tryKW", <<ts, columns.p, "VALUES">>) THEN
        LET values == Run("rowsLoop", <<ts, advance(ts, columns.p), <<>> >>) IN
        IF values.err # "" THEN values
        ELSE Ok([type |-> "INSERT", into |-> into.n, columns |-> columns.n,
                 values |-> values.n], values.p)
    ELSE IF Run("_tryKW", <<ts, columns.p, "SELECT">>) THEN
        LET select == Run("parseSelectAfterInitial", <<ts, advance(ts, columns.p)>>) IN
        IF select.err # "" THEN select
        ELSE Ok([type |-> "INSERT", into |-> into.n, columns |-> columns.n,
                 select |-> select.n], select.p)
    ELSE ThrowAt(ts, columns.p, "INSERT supports VALUES or SELECT")

\* do { col '=' parseValue } while (this._eatOp(','));
setLoop(ts, p, set) ==
    LET col == Run("_expectIdent", <<ts, p>>) IN
    IF col.err # "" THEN col ELSE
    LET eq == Run("_expectOp", <<ts, col.p, "=">>) IN
    IF eq.err # "" THEN eq ELSE
    LET value == Run("parseValue", <<ts, eq.p>>) IN
    IF value.err # "" THEN value ELSE
    LET item == [column |-> [type |-> "Field", name |-> col.n.value], value |-> value.n] IN
    IF Run("_isOp", <<ts, value.p, ",">>) THEN Run("setLoop", <<ts, advance(ts, value.p), Append(set, item)>>)
    ELSE Ok(Append(set, item), value.p)

parseUpdate(ts, p) ==
    LET table == Run("parseTableRefNoAlias", <<ts, p>>) IN
    IF table.err # "" THEN table ELSE
    LET setKW == Run("_expectKW", <<ts, table.p, "SET">>) IN
    IF setKW.err # "" THEN setKW ELSE
    LET set == Run("setLoop", <<ts, setKW.p, <<>> >>) IN
    IF set.err # "" THEN set ELSE
    LET where == Run("parseWhere", <<ts, set.p>>) IN
    IF where.err # "" THEN where
    ELSE Ok([type |-> "UPDATE", table |-> table.n, set |-> set.n, where |-> where.n], where.p)

parseDelete(ts, p) ==
    LET fromKW == Run("_expectKW", <<ts, p, "FROM">>) IN
    IF fromKW.err # "" THEN fromKW ELSE
    LET from == Run("parseTableRefNoAlias", <<ts, fromKW.p>>) IN
    IF from.err # "" THEN from ELSE
    LET where == Run("parseWhere", <<ts, from.p>>) IN
    IF where.err # "" THEN where
    ELSE Ok([type |-> "DELETE", from |-> from.n, where |-> where.n], where.p)

parseStatement(ts) ==
    LET tok == Run("_expectIdent", <<ts, 1>>) IN
    IF tok.err # "" THEN tok ELSE
    LET kw == ToUpperCase(tok.n.value) IN
    CASE kw = "SELECT" -> Run("parseSelect", <<ts, tok.p>>)
      [] kw = "INSERT" -> Run("parseInsert", <<ts, tok.p>>)
      [] kw = "UPDATE" -> Run("parseUpdate", <<ts, tok.p>>)
      [] kw = "DELETE" -> Run("parseDelete", <<ts, tok.p>>)
      [] kw = "BEGIN" -> Ok([type |-> "BEGIN"], tok.p)
      [] kw = "COMMIT" -> Ok([type |-> "COMMIT"], tok.p)
      [] kw = "ROLLBACK" -> Ok([type |-> "ROLLBACK"], tok.p)
      [] OTHER -> Throw("Unsupported statement: " \o kw)

(***************************************************************************)
(* Documents handed to the store: a JavaScript object is Obj of a sequence *)
(* of <<key, value>> pairs in insertion order; assigning an existing key   *)
(* replaces its value in place.                                            *)
(***************************************************************************)
EmptyObj == Obj(<<>>)
HasKey(o, k) == \E j \in 1..Len(o.v) : o.v[j][1] = k
Get(o, k) ==
    IF HasKey(o, k) THEN o.v[CHOOSE j \in 1..Len(o.v) : o.v[j][1] = k][2]
    ELSE JSUndefined
Put(o, k, x) ==
    IF HasKey(o, k)
    THEN Obj([j \in 1..Len(o.v) |-> IF o.v[j][1] = k THEN <<k, x>> ELSE o.v[j]])
    ELSE Obj(Append(o.v, <<k, x>>))
Keys(o) == [j \in 1..Len(o.v) |-> o.v[j][1]]
D1(k, x) == Obj(<< <<k, x>> >>)
D2(k1, x1, k2, x2) == Obj(<< <<k1, x1>>, <<k2, x2>> >>)

\* args[k] of a JavaScript array (1-based here): undefined past the end.
At(s, k) == IF k \in 1..Len(s) THEN s[k] ELSE JSUndefined

\* The type tag of an AST node; nodes without one have type undefined ("").
TypeOf(node) == IF "type" \in DOMAIN node THEN node.type ELSE ""

(***************************************************************************)
(* Strings as character sequences, for the strings whose characters the    *)
(* program inspects or produces (LIKE patterns, String(value)).            *)
(***************************************************************************)
Spelled == {
    <<"A%", <<"A", "%">> >>, <<"A_B", <<"A", "_", "B">> >>,
    <<"a.b%", <<"a", ".", "b", "%">> >>, <<"null", <<"n", "u", "l", "l">> >>,
    <<"Laptop", <<"L", "a", "p", "t", "o", "p">> >>,
    <<"NG", <<"N", "G">> >> }
CharsOf(s) == (CHOOSE w \in Spelled : w[1] = s)[2]

RECURSIVE Join(_)
Join(cs) == IF cs = <<>> THEN "" ELSE cs[1] \o Join(Tail(cs))

RECURSIVE DigitsOf(_)
DigitsOf(n) == IF n < 10 THEN Digits[n + 1] ELSE DigitsOf(n \div 10) \o Digits[(n % 10) + 1]

\* String(v)
StringOf(x) ==
    CASE x.t = "str" -> x.v
      [] x.t = "num" -> DigitsOf(x.v)
      [] x.t = "dec" -> DigitsOf(x.whole) \o "." \o Join(x.frac)
      [] x.t = "nan" -> "NaN"
      [] x.t = "bool" -> IF x.v THEN "true" ELSE "false"
      [] x.t = "null" -> "null"
      [] x.t = "undefined" -> "undefined"
      [] x.t = "function" -> "function " \o x.v \o "() { [native code] }"
      [] OTHER -> "[object Object]"

RegexMeta == {".", "*", "+", "?", "^", "$", "{", "}", "(", ")", "|", "[", "]", "\\"}

\* s.replace(/<c>/g, to) and the escaping replace, one character at a time.
RECURSIVE replaceAll(_, _, _)
replaceAll(cs, c, to) ==
    IF cs = <<>> THEN <<>>
    ELSE (IF cs[1] = c THEN to ELSE <<cs[1]>>) \o replaceAll(Tail(cs), c, to)

RECURSIVE escapeMeta(_)
escapeMeta(cs) ==
    IF cs = <<>> THEN <<>>
    ELSE (IF cs[1] \in RegexMeta THEN <<"\\", cs[1]>> ELSE <<cs[1]>>) \o escapeMeta(Tail(cs))

\* likeToRegex without the escaping replace.
likeUnescaped(pattern) ==
    LET re == <<"^">> \o replaceAll(replaceAll(CharsOf(pattern), "%", <<".", "*">>), "_", <<".">>)
                      \o <<"$">>
    IN  D2("$regex", Str(Join(re)), "$options", Str("i"))

likeToRegex(pattern) ==
    LET escaped == escapeMeta(CharsOf(pattern))
        re == <<"^">> \o replaceAll(replaceAll(escaped, "%", <<".", "*">>), "_", <<".">>)
                      \o <<"$">>
    IN  D2("$regex", Str(Join(re)), "$options", Str("i"))

toArray(x) == IF x.t = "arr" THEN x ELSE Arr(<<x>>)

(***************************************************************************)
(* Tokenizer over the characters of a statement text.  A tokenizer tk is   *)
(* [input, i, peeked]: input the sequence of characters, i the number of   *)
(* characters consumed (this.i), peeked the cached token or null.          *)
(***************************************************************************)
SpaceChars == {" ", "\n", "\t"}
DigitChars == {Digits[k] : k \in 1..Len(Digits)}
\* /[A-Za-z_]/ and /[A-Za-z0-9_$]/ over the letters the inputs are written in.
IdentStartChars == {"a", "b", "c", "n", "x", "y", "A", "B", "_"}
IdentChars == IdentStartChars \cup DigitChars \cup {"$"}
TwoOps == {<<">", "=">>, <<"<", "=">>, <<"<", ">">>, <<"!", "=">>}
Singles == {",", "(", ")", ".", "=", "*", "+", "/", "-", "<", ">"}

\* s[i] of JavaScript (0-based); "undefined" past the end.
CharAt(s, i) == IF i < Len(s) THEN s[i + 1] ELSE "undefined"

\* while (i < n && class(s[i])) i++
RECURSIVE scanWhile(_, _, _)
scanWhile(s, i, class) ==
    IF i < Len(s) /\ s[i + 1] \in class THEN scanWhile(s, i + 1, class) ELSE i

\* while (this.i < n && !(s[this.i] === '*' && s[this.i+1] === '/')) this.i++
RECURSIVE scanBlock(_, _)
scanBlock(s, i) ==
    IF i < Len(s) /\ ~(CharAt(s, i) = "*" /\ CharAt(s, i + 1) = "/") THEN scanBlock(s, i + 1)
    ELSE i

\* The loop of a string literal: [val, i] when it ends.
RECURSIVE scanString(_, _, _, _)
scanString(s, i, quote, val) ==
    IF i >= Len(s) THEN [val |-> val, i |-> i]
    ELSE LET ch == CharAt(s, i) IN
         IF ch = "\\" THEN scanString(s, i + 2, quote, val \o CharAt(s, i + 1))
         ELSE IF ch = quote THEN [val |-> val, i |-> i + 1]
         ELSE scanString(s, i + 1, quote, val \o ch)

\* Tokenizer.next() with nothing cached, from i consumed characters:
\* [err, tok, i], the token returned or the Error thrown, and this.i after.
RECURSIVE scan(_, _)
scan(s, i0) ==
    LET n == Len(s)
        i == scanWhile(s, i0, SpaceChars)
        c == CharAt(s, i)
    IN  IF i >= n THEN [err |-> "", tok |-> Eof, i |-> i]
        ELSE IF c = "-" /\ CharAt(s, i + 1) = "-"
            THEN scan(s, scanWhile(s, i, {s[k] : k \in 1..n} \ {"\n"}))
        ELSE IF c = "/" /\ CharAt(s, i + 1) = "*" THEN scan(s, scanBlock(s, i + 2) + 2)
        ELSE IF c \in {"'", "\""} THEN
            LET r == scanString(s, i + 1, c, "") IN
            [err |-> "", tok |-> StrTok(r.val), i |-> r.i]
        ELSE IF c \in DigitChars THEN
            LET j == scanWhile(s, i, DigitChars \cup {"."}) IN
            [err |-> "", tok |-> NumTok(SubSeq(s, i + 1, j)), i |-> j]
        ELSE IF c \in IdentStartChars THEN
            LET j == scanWhile(s, i, IdentChars) IN
            [err |-> "", tok |-> Id(Join(SubSeq(s, i + 1, j))), i |-> j]
        ELSE IF c = ":" THEN
            LET j == scanWhile(s, i + 1, IdentChars) IN
            [err |-> "", tok |-> ParamNamed(Join(SubSeq(s, i + 2, j))), i |-> j]
        ELSE IF c = "?" THEN [err |-> "", tok |-> ParamPos, i |-> i + 1]
        ELSE IF i + 1 < n /\ <<c, CharAt(s, i + 1)>> \in TwoOps
            THEN [err |-> "", tok |-> Op(c \o CharAt(s, i + 1)), i |-> i + 2]
        ELSE IF c \in Singles THEN [err |-> "", tok |-> Op(c), i |-> i + 1]
        ELSE [err |-> "Unexpected character: " \o c, i |-> i + 1]

\* new Tokenizer(input)
Tokenizer(input) == [input |-> input, i |-> 0, peeked |-> JSNull]

\* tk.next(): [err, tok, tk], the tokenizer as the call leaves it.
Tokenizer_next(tk) ==
    IF tk.peeked # JSNull
    THEN [err |-> "", tok |-> tk.peeked, tk |-> [tk EXCEPT !.peeked = JSNull]]
    ELSE LET r == scan(tk.input, tk.i) IN
         IF r.err # "" THEN [err |-> r.err, tk |-> [tk EXCEPT !.i = r.i]]
         ELSE [err |-> "", tok |-> r.tok, tk |-> [tk EXCEPT !.i = r.i]]

\* tk.peek() answering with a fresh next() every time.
peekWithoutCache(tk) == Tokenizer_next(tk)

\* tk.peek(): if (!this.peeked) this.peeked = this.next(); return this.peeked;
Tokenizer_peek(tk) ==
    IF tk.peeked # JSNull THEN [err |-> "", tok |-> tk.peeked, tk |-> tk]
    ELSE LET r == Tokenizer_next(tk) IN
         IF r.err # "" THEN r
         ELSE [err |-> "", tok |-> r.tok, tk |-> [r.tk EXCEPT !.peeked = r.tok]]

(***************************************************************************)
(* ParamBinder.  A binder b is [named, positional, posIndex, trace]; trace *)
(* records, for every positional bind, the token position of the `?` and   *)
(* the index of the value it received.  Operations that use the binder     *)
(* return [err, v, b]: the value and the binder after the call.            *)
(***************************************************************************)
\* Properties every object literal inherits from Object.prototype.
ObjectPrototype == {"constructor", "toString", "valueOf", "hasOwnProperty"}

\* obj[name] on the named-parameter object: an own property, else an
\* inherited one, else undefined.
namedLookup(named, name) ==
    IF HasKey(named, name) THEN Get(named, name)
    ELSE IF name \in ObjectPrototype THEN Fn(name)
    ELSE JSUndefined

ParamBinder(named, positional) ==
    [named |-> named, positional |-> positional, posIndex |-> 0, trace |-> <<>>]

Val(x, b) == [err |-> "", v |-> x, b |-> b]

\* node.values.map(v => this.bindValue(v))
bindEach(b, nodes, acc) ==
    IF nodes = <<>> THEN Val(Arr(acc), b)
    ELSE LET r == Run("bindValue", <<b, nodes[1]>>) IN
         IF r.err # "" THEN r ELSE Run("bindEach", <<r.b, Tail(nodes), Append(acc, r.v)>>)

bindValue(b, node) ==
    IF node \in {JSNull, JSUndefined} THEN Val(JSNull, b)
    ELSE
    CASE TypeOf(node) = "Param" ->
            IF node.mode = "pos" THEN
                IF b.posIndex >= Len(b.positional)
                THEN Throw("Not enough positional params")
                ELSE Val(b.positional[b.posIndex + 1],
                         [b EXCEPT !.posIndex = @ + 1,
                                   !.trace = Append(@, [at |-> node.at, idx |-> b.posIndex])])
            ELSE LET x == namedLookup(b.named, node.name) IN
                 IF x.t = "undefined" THEN Throw("Missing named param :" \o node.name)
                 ELSE Val(x, b)
      [] TypeOf(node) = "Number" -> Val(node.value, b)
      [] TypeOf(node) = "String" -> Val(Str(node.value), b)
      [] TypeOf(node) = "Boolean" -> Val(Bool(node.value), b)
      [] TypeOf(node) = "Null" -> Val(JSNull, b)
      [] TypeOf(node) = "Array" -> Run("bindEach", <<b, node.values, <<>> >>)
      [] TypeOf(node) = "Between" ->
            LET f == Run("bindValue", <<b, node.from>>) IN
            IF f.err # "" THEN f
            ELSE LET t == Run("bindValue", <<f.b, node.to>>) IN
                 IF t.err # "" THEN t
                 ELSE Val(D2("from", f.v, "to", t.v), t.b)
      [] OTHER -> Val(JSNull, b)

(***************************************************************************)
(* Utilities                                                               *)
(***************************************************************************)
isAggregate(name) == ToUpperCase(name) \in {"COUNT", "SUM", "AVG", "MIN", "MAX"}

projectKey(f) ==
    IF TypeOf(f) # "Field" THEN "expr"
    ELSE IF "alias" \in DOMAIN f /\ ~Falsy(f.alias) THEN f.alias.v ELSE f.name

exprAlias(expr) ==
    CASE TypeOf(expr) = "Field" -> projectKey(expr)
      [] TypeOf(expr) = "Call" -> ToLowerCase(expr.name)
      [] TypeOf(expr) = "All" -> "*"
      [] OTHER -> "expr"

\* [err, table, field, path]; defaultTable is a non-empty string, so the
\* leading-dot replace never applies.
qualifyField(f, defaultTable) ==
    IF TypeOf(f) # "Field" THEN Throw("Expected Field")
    ELSE LET table == IF "table" \in DOMAIN f THEN f.table ELSE defaultTable IN
         [err |-> "", table |-> table, field |-> f.name,
          path |-> table \o "." \o f.name]

setEach(b, setList, doc) ==
    IF setList = <<>> THEN Val(doc, b)
    ELSE LET r == Run("bindValue", <<b, setList[1].value>>) IN
         IF r.err # "" THEN r
         ELSE Run("setEach", <<r.b, Tail(setList), Put(doc, setList[1].column.name, r.v)>>)

buildUpdate(setList, b) ==
    LET r == Run("setEach", <<b, setList, EmptyObj>>) IN
    IF r.err # "" THEN r ELSE Val(D1("$set", r.v), r.b)

\* The leaf of buildMatch: left is a Field, val is the bound right side.
\* The operator switch with every case returning the equality predicate.
everyLeafEquality(key, op, val, right, b) == Val(D1(key, val), b)

matchLeaf(key, op, val, right, b) ==
    CASE op = "=" -> Val(D1(key, val), b)
      [] op \in {"!=", "<>"} -> Val(D1(key, D1("$ne", val)), b)
      [] op = ">" -> Val(D1(key, D1("$gt", val)), b)
      [] op = ">=" -> Val(D1(key, D1("$gte", val)), b)
      [] op = "<" -> Val(D1(key, D1("$lt", val)), b)
      [] op = "<=" -> Val(D1(key, D1("$lte", val)), b)
      [] op = "IN" -> Val(D1(key, D1("$in", toArray(val))), b)
      [] op = "NOT IN" -> Val(D1(key, D1("$nin", toArray(val))), b)
      [] op = "LIKE" -> Val(D1(key, likeToRegex(StringOf(val))), b)
      [] op = "IS" ->
            IF "kind" \in DOMAIN right /\ right.kind = "NULL" THEN Val(D1(key, JSNull), b)
            ELSE Throw("Unsupported WHERE clause")
      [] op = "IS NOT" ->
            IF "kind" \in DOMAIN right /\ right.kind = "NULL"
            THEN Val(D1(key, D1("$ne", JSNull)), b)
            ELSE Throw("Unsupported WHERE clause")
      [] op = "BETWEEN" ->
            LET f == Run("bindValue", <<b, right.from>>) IN
            IF f.err # "" THEN f
            ELSE LET t == Run("bindValue", <<f.b, right.to>>) IN
                 IF t.err # "" THEN t
                 ELSE Val(D1(key, D2("$gte", f.v, "$lte", t.v)), t.b)
      [] OTHER -> Throw("Unsupported operator in WHERE: " \o op)

buildMatch(expr, b, defaultTable) ==
    IF expr = JSNull THEN Val(EmptyObj, b)
    ELSE
    CASE TypeOf(expr) = "Binary" ->
            IF expr.op \in {"AND", "OR"} THEN
                LET x == Run("buildMatch", <<expr.left, b, defaultTable>>) IN
                IF x.err # "" THEN x
                ELSE LET y == Run("buildMatch", <<expr.right, x.b, defaultTable>>) IN
                     IF y.err # "" THEN y
                     ELSE Val(D1(IF expr.op = "AND" THEN "$and" ELSE "$or",
                                 Arr(<<x.v, y.v>>)), y.b)
            ELSE IF TypeOf(expr.left) = "Field" THEN
                LET q == qualifyField(expr.left, defaultTable)
                    val == Run("bindValue", <<b, expr.right>>)
                IN  IF q.err # "" THEN q
                    ELSE IF val.err # "" THEN val
                    ELSE Run("matchLeaf", <<q.path, expr.op, val.v, expr.right, val.b>>)
            ELSE Throw("Unsupported WHERE clause")
      [] TypeOf(expr) = "Unary" ->
            IF expr.op = "NOT" THEN
                LET inner == Run("buildMatch", <<expr.expr, b, defaultTable>>) IN
                IF inner.err # "" THEN inner
                ELSE Val(D1("$nor", Arr(<<inner.v>>)), inner.b)
            ELSE Val(JSUndefined, b)
      [] OTHER -> Throw("Unsupported WHERE expression")

buildHaving(expr, b) ==
    IF TypeOf(expr) = "Binary" THEN
        LET rightVal == Run("bindValue", <<b, expr.right>>)
            left == expr.left
            field == IF TypeOf(left) = "Call" THEN ToLowerCase(left.name)
                     ELSE IF TypeOf(left) = "Field" THEN projectKey(left) ELSE "expr"
            op == expr.op
        IN  IF rightVal.err # "" THEN rightVal
            ELSE
            CASE op = "=" -> Val(D1(field, rightVal.v), rightVal.b)
              [] op \in {"!=", "<>"} -> Val(D1(field, D1("$ne", rightVal.v)), rightVal.b)
              [] op = ">" -> Val(D1(field, D1("$gt", rightVal.v)), rightVal.b)
              [] op = ">=" -> Val(D1(field, D1("$gte", rightVal.v)), rightVal.b)
              [] op = "<" -> Val(D1(field, D1("$lt", rightVal.v)), rightVal.b)
              [] op = "<=" -> Val(D1(field, D1("$lte", rightVal.v)), rightVal.b)
              [] OTHER -> Throw("Unsupported HAVING operator")
    ELSE Throw("Unsupported HAVING")

(***************************************************************************)
(* Built-in SQL functions and projection expressions                       *)
(***************************************************************************)
\* The keys of the object buildBuiltinFunctions() returns.
buildBuiltinFunctions == {"LOWER", "UPPER", "CONCAT", "COALESCE", "ABS", "ROUND"}

\* fns[name].expr(args)
applyBuiltin(name, args) ==
    CASE name = "LOWER" -> D1("$toLower", At(args, 1))
      [] name = "UPPER" -> D1("$toUpper", At(args, 1))
      [] name = "CONCAT" -> D1("$concat", Arr(args))
      [] name = "COALESCE" ->
            D1("$ifNull", Arr(<<At(args, 1), Coalesce(At(args, 2), JSNull)>>))
      [] name = "ABS" -> D1("$abs", At(args, 1))
      [] name = "ROUND" ->
            IF At(args, 2).t \notin {"null", "undefined"}
            THEN D1("$round", Arr(<<At(args, 1), At(args, 2)>>))
            ELSE D1("$round", Arr(<<Str("$$_internal"), Num(0)>>))

\* main.alias || main.name, j.table.alias || j.table.name
aliasOrName(table) ==
    IF "alias" \in DOMAIN table /\ ~Falsy(table.alias) THEN table.alias.v ELSE table.name

\* sel.alias || exprAlias(sel.expr)
selectKey(sel) ==
    IF "alias" \in DOMAIN sel /\ ~Falsy(sel.alias) THEN sel.alias.v ELSE exprAlias(sel.expr)

\* expr.args.map(a => toMongoExpr(a, main, joins, binder, functions))
exprEach(args, main, joins, b, functions, acc) ==
    IF args = <<>> THEN Val(acc, b)
    ELSE LET r == Run("toMongoExpr", <<args[1], main, joins, b, functions>>) IN
         IF r.err # "" THEN r
         ELSE Run("exprEach", <<Tail(args), main, joins, r.b, functions, Append(acc, r.v)>>)

\* functions is this.functions (the object holding the built-ins), or
\* JSUndefined when the caller passed none (toMongoAgg).
toMongoExpr(expr, main, joins, b, functions) ==
    IF expr \in {JSNull, JSUndefined}
    THEN Throw("TypeError: Cannot read properties of undefined (reading 'type')")
    ELSE
    CASE TypeOf(expr) = "Number" -> Val(expr.value, b)
      [] TypeOf(expr) = "String" -> Val(Str(expr.value), b)
      [] TypeOf(expr) = "Boolean" -> Val(Bool(expr.value), b)
      [] TypeOf(expr) = "Param" -> Run("bindValue", <<b, expr>>)
      [] TypeOf(expr) = "Field" ->
            LET q == qualifyField(expr, aliasOrName(main)) IN
            IF q.err # "" THEN q ELSE Val(Str("$" \o q.path), b)
      [] TypeOf(expr) = "All" -> Val(Str("$$ROOT"), b)
      [] TypeOf(expr) = "Call" ->
            IF functions = JSUndefined
            THEN Throw("TypeError: Cannot read properties of undefined")
            ELSE IF ToUpperCase(expr.name) \notin functions.v
            THEN Throw("Unknown function: " \o expr.name)
            ELSE LET args == Run("exprEach", <<expr.args, main, joins, b, functions, <<>> >>) IN
                 IF args.err # "" THEN args
                 ELSE Val(applyBuiltin(ToUpperCase(expr.name), args.v), args.b)
      [] TypeOf(expr) = "Binary" ->
            LET left == Run("toMongoExpr", <<expr.left, main, joins, b, functions>>) IN
            IF left.err # "" THEN left ELSE
            LET right == Run("toMongoExpr", <<expr.right, main, joins, left.b, functions>>) IN
            IF right.err # "" THEN right ELSE
            LET pair == Arr(<<left.v, right.v>>) IN
            CASE expr.op = "+" -> Val(D1("$add", pair), right.b)
              [] expr.op = "-" -> Val(D1("$subtract", pair), right.b)
              [] expr.op = "*" -> Val(D1("$multiply", pair), right.b)
              [] expr.op = "/" -> Val(D1("$divide", pair), right.b)
              [] OTHER -> Throw("Unsupported binary op in projection: " \o expr.op)
      [] OTHER -> Throw("Unsupported expression in projection: " \o TypeOf(expr))

\* toMongoAgg with COUNT(field) compiled like COUNT(*).
countEveryMember(callExpr, main, joins, b) ==
    LET name == ToUpperCase(callExpr.name)
        e == Run("toMongoExpr", <<At(callExpr.args, 1), main, joins, b, JSUndefined>>)
    IN  IF name = "COUNT" THEN Val(D1("$sum", Num(1)), b)
        ELSE IF name \in {"SUM", "AVG", "MIN", "MAX"} THEN
            IF e.err # "" THEN e
            ELSE Val(D1(CASE name = "SUM" -> "$sum" [] name = "AVG" -> "$avg"
                          [] name = "MIN" -> "$min" [] name = "MAX" -> "$max", e.v), e.b)
        ELSE Throw("Unsupported aggregate " \o name)

toMongoAgg(callExpr, main, joins, b) ==
    LET name == ToUpperCase(callExpr.name)
        arg == At(callExpr.args, 1)
        e == Run("toMongoExpr", <<arg, main, joins, b, JSUndefined>>)
    IN  IF name = "COUNT" THEN
            IF arg = JSUndefined \/ TypeOf(arg) = "All" THEN Val(D1("$sum", Num(1)), b)
            ELSE IF e.err # "" THEN e
            ELSE Val(D1("$sum", D1("$cond",
                        Arr(<<D1("$gt", Arr(<<e.v, JSNull>>)), Num(1), Num(0)>>))), e.b)
        ELSE IF name \in {"SUM", "AVG", "MIN", "MAX"} THEN
            IF e.err # "" THEN e
            ELSE Val(D1(CASE name = "SUM" -> "$sum" [] name = "AVG" -> "$avg"
                          [] name = "MIN" -> "$min" [] name = "MAX" -> "$max", e.v), e.b)
        ELSE Throw("Unsupported aggregate " \o name)

(***************************************************************************)
(* Statement executors.  Each returns [err, b, cmds]: the Error thrown, or *)
(* the binder afterwards and the commands sent to the store, in order.     *)
(***************************************************************************)
\* this.functions, set by the constructor.
thisFunctions == [t |-> "obj", v |-> buildBuiltinFunctions]

\* The registry entry registerTable(name, {collection}) stores.
tableMeta(name, collection) == [name |-> name, collection |-> collection]

\* [err, v]: the name of the collection behind a table name.
_getCollection(tbls, tableName) ==
    IF ToLowerCase(tableName) \notin DOMAIN tbls
    THEN Throw("Unknown table: " \o tableName)
    ELSE [err |-> "", v |-> tbls[ToLowerCase(tableName)].collection]

\* The options without the session.
noSession(sess) == EmptyObj

\* this.session ? { session: this.session } : {}
sessionOpts(sess) == IF sess = 0 THEN EmptyObj ELSE D1("session", Num(sess))

Done(b, cmds) == [err |-> "", b |-> b, cmds |-> cmds]

\* The JOINS loop of _execSelect: a $lookup and a $unwind per join.
joinStages(tbls, main, joins, pipeline) ==
    IF joins = <<>> THEN [err |-> "", v |-> pipeline]
    ELSE
    LET j == joins[1]
        on == j.on
        as == aliasOrName(j.table)
    IN  IF j.type \notin {"INNER", "LEFT"} THEN Throw("Unsupported JOIN type: " \o j.type)
        ELSE IF on.op # "=" \/ TypeOf(on.left) # "Field" \/ TypeOf(on.right) # "Field"
        THEN Throw("JOIN ... ON must be equality between two fields")
        ELSE
        LET localField == qualifyField(on.left, aliasOrName(main))
            foreignField == qualifyField(on.right, as)
            from == _getCollection(tbls, j.table.name)
        IN  IF from.err # "" THEN from
            ELSE
            LET lookup == D1("$lookup",
                             Obj(<< <<"from", Str(from.v)>>,
                                    <<"localField", Str(localField.field)>>,
                                    <<"foreignField", Str(foreignField.field)>>,
                                    <<"as", Str(as)>> >>))
                unwind == D1("$unwind",
                             D2("path", Str("$" \o as),
                                "preserveNullAndEmptyArrays", Bool(j.type # "INNER")))
            IN  Run("joinStages", <<tbls, main, Tail(joins), pipeline \o <<lookup, unwind>> >>)

\* idExpr[projectKey(g)] = toMongoExpr(g, ...) for each GROUP BY field.
groupKeys(groupBy, main, joins, b, idExpr) ==
    IF groupBy = <<>> THEN Val(idExpr, b)
    ELSE LET r == Run("toMongoExpr", <<groupBy[1], main, joins, b, thisFunctions>>) IN
         IF r.err # "" THEN r
         ELSE Run("groupKeys", <<Tail(groupBy), main, joins, r.b, Put(idExpr, projectKey(groupBy[1]), r.v)>>)

isAggregateItem(sel) == TypeOf(sel.expr) = "Call" /\ isAggregate(sel.expr.name)

\* group.$group[key] = toMongoAgg(sel.expr, ...) for each aggregate of the select list.
groupAggregates(columns, main, joins, b, group) ==
    IF columns = <<>> THEN Val(group, b)
    ELSE IF isAggregateItem(columns[1]) THEN
        LET r == Run("toMongoAgg", <<columns[1].expr, main, joins, b>>) IN
        IF r.err # "" THEN r
        ELSE Run("groupAggregates", <<Tail(columns), main, joins, r.b,
                             Put(group, selectKey(columns[1]), r.v)>>)
    ELSE Run("groupAggregates", <<Tail(columns), main, joins, b, group>>)

\* The re-projection after $group: the group keys, then the aggregates.
RECURSIVE projectGroupKeys(_, _)
projectGroupKeys(keys, project) ==
    IF keys = <<>> THEN project
    ELSE projectGroupKeys(Tail(keys), Put(project, keys[1], Str("$_id." \o keys[1])))

RECURSIVE projectAggregates(_, _)
projectAggregates(columns, project) ==
    IF columns = <<>> THEN project
    ELSE projectAggregates(Tail(columns),
            IF isAggregateItem(columns[1])
            THEN Put(project, selectKey(columns[1]), Num(1)) ELSE project)

\* The simple projection: project.$project[key] = toMongoExpr(sel.expr, ...).
projectColumns(columns, main, joins, b, project) ==
    IF columns = <<>> THEN Val(project, b)
    ELSE LET r == Run("toMongoExpr", <<columns[1].expr, main, joins, b, thisFunctions>>) IN
         IF r.err # "" THEN r
         ELSE Run("projectColumns", <<Tail(columns), main, joins, r.b,
                             Put(project, selectKey(columns[1]), r.v)>>)

RECURSIVE sortKeys(_, _)
sortKeys(orderBy, sort) ==
    IF orderBy = <<>> THEN sort
    ELSE LET ob == orderBy[1]
             key == IF TypeOf(ob.expr) = "Field" THEN projectKey(ob.expr)
                    ELSE exprAlias(ob.expr)
         IN  sortKeys(Tail(orderBy), Put(sort, key, IF ob.dir = "DESC" THEN Num(-1) ELSE Num(1)))

\* GROUP BY branch of _execSelect: [err, v (the stages appended), b].
groupStages(a, main, b) ==
    LET idExpr == Run("groupKeys", <<a.groupBy, main, a.joins, b, EmptyObj>>) IN
    IF idExpr.err # "" THEN idExpr ELSE
    LET group == Run("groupAggregates", <<a.columns, main, a.joins, idExpr.b, D1("_id", idExpr.v)>>) IN
    IF group.err # "" THEN group ELSE
    LET having == IF a.having # JSNull THEN Run("buildHaving", <<a.having, group.b>>)
                  ELSE Val(JSNull, group.b)
    IN
    IF having.err # "" THEN having ELSE
    LET project == projectAggregates(a.columns, projectGroupKeys(Keys(idExpr.v), EmptyObj)) IN
    Val(<<D1("$group", group.v)>>
          \o (IF a.having # JSNull THEN <<D1("$match", having.v)>> ELSE <<>>)
          \o <<D1("$project", project)>>, having.b)

\* No GROUP BY: the simple projection, none for SELECT *.
projectStages(a, main, b) ==
    IF Len(a.columns) = 1 /\ TypeOf(a.columns[1].expr) = "All" THEN Val(<<>>, b)
    ELSE LET project == Run("projectColumns", <<a.columns, main, a.joins, b, EmptyObj>>) IN
         IF project.err # "" THEN project
         ELSE Val(<<D1("$project", project.v)>>, project.b)

\* The stages of pageStages the other way round: the limit, then the skip.
limitThenSkip(a) ==
    (IF IsFinite(a.limit) THEN <<D1("$limit", a.limit)>> ELSE <<>>)
        \o (IF IsFinite(a.offset) THEN <<D1("$skip", a.offset)>> ELSE <<>>)

\* OFFSET / LIMIT of _execSelect: a $skip, then a $limit, each when its
\* value is a finite number.
pageStages(a) ==
    (IF IsFinite(a.offset) THEN <<D1("$skip", a.offset)>> ELSE <<>>)
        \o (IF IsFinite(a.limit) THEN <<D1("$limit", a.limit)>> ELSE <<>>)

_execSelect(a, b, tbls, sess) ==
    LET main == a.from
        col == _getCollection(tbls, main.name)
    IN
    IF col.err # "" THEN col ELSE
    LET where == IF a.where # JSNull THEN Run("buildMatch", <<a.where, b, aliasOrName(main)>>)
                 ELSE Val(JSNull, b)
    IN
    IF where.err # "" THEN where ELSE
    LET p1 == IF a.where # JSNull THEN <<D1("$match", where.v)>> ELSE <<>>
        p2 == Run("joinStages", <<tbls, main, a.joins, p1>>)
    IN
    IF p2.err # "" THEN p2 ELSE
    LET p3 == IF Len(a.groupBy) > 0 THEN Run("groupStages", <<a, main, where.b>>)
              ELSE Run("projectStages", <<a, main, where.b>>)
    IN
    IF p3.err # "" THEN p3 ELSE
    LET p4 == IF Len(a.orderBy) > 0 THEN <<D1("$sort", sortKeys(a.orderBy, EmptyObj))>>
              ELSE <<>>
    IN  Done(p3.b, << [cmd |-> "aggregate", collection |-> col.v,
                       pipeline |-> p2.v \o p3.v \o p4 \o pageStages(a),
                       opts |-> sessionOpts(sess)] >>)

\* _execUpdate sending its updateMany, with no filter, before it builds the
\* filter and the update.
updateBeforeBuilding(a, b, tbls, sess) ==
    LET table == a.table.name
        col == _getCollection(tbls, table)
    IN
    IF col.err # "" THEN col ELSE
    LET sent == << [cmd |-> "updateMany", collection |-> col.v, filter |-> EmptyObj,
                    update |-> EmptyObj, opts |-> sessionOpts(sess)] >>
        filter == Run("buildMatch", <<a.where, b, table>>)
    IN
    IF filter.err # "" THEN [err |-> filter.err, cmds |-> sent] ELSE
    LET update == Run("buildUpdate", <<a.set, filter.b>>) IN
    IF update.err # "" THEN [err |-> update.err, cmds |-> sent]
    ELSE Done(update.b, sent)

_execUpdate(a, b, tbls, sess) ==
    LET table == a.table.name
        col == _getCollection(tbls, table)
    IN
    IF col.err # "" THEN col ELSE
    LET filter == Run("buildMatch", <<a.where, b, table>>) IN
    IF filter.err # "" THEN filter ELSE
    LET update == Run("buildUpdate", <<a.set, filter.b>>) IN
    IF update.err # "" THEN update
    ELSE Done(update.b, << [cmd |-> "updateMany", collection |-> col.v,
                            filter |-> filter.v, update |-> update.v,
                            opts |-> sessionOpts(sess)] >>)

\* _execDelete without its filter: every document of the collection.
deleteEverything(a, b, tbls, sess) ==
    LET col == _getCollection(tbls, a.from.name) IN
    IF col.err # "" THEN col
    ELSE Done(b, << [cmd |-> "deleteMany", collection |-> col.v,
                     filter |-> EmptyObj, opts |-> sessionOpts(sess)] >>)

_execDelete(a, b, tbls, sess) ==
    LET table == a.from.name
        col == _getCollection(tbls, table)
    IN
    IF col.err # "" THEN col ELSE
    LET filter == Run("buildMatch", <<a.where, b, table>>) IN
    IF filter.err # "" THEN filter
    ELSE Done(filter.b, << [cmd |-> "deleteMany", collection |-> col.v,
                            filter |-> filter.v, opts |-> sessionOpts(sess)] >>)

\* doc[c.name] = binder.bindValue(row[i]) for each declared column.
rowDoc(columns, i, row, b, doc) ==
    IF i > Len(columns) THEN Val(doc, b)
    ELSE LET r == Run("bindValue", <<b, At(row, i)>>) IN
         IF r.err # "" THEN r
         ELSE Run("rowDoc", <<columns, i + 1, row, r.b, Put(doc, columns[i].name, r.v)>>)

\* valueDocs putting each new document in front of the earlier ones.
newestRowFirst(columns, values, b, docs) ==
    IF values = <<>> THEN Val(docs, b)
    ELSE LET d == Run("rowDoc", <<columns, 1, values[1], b, EmptyObj>>) IN
         IF d.err # "" THEN d
         ELSE Run("valueDocs", <<columns, Tail(values), d.b, <<d.v>> \o docs>>)

valueDocs(columns, values, b, docs) ==
    IF values = <<>> THEN Val(docs, b)
    ELSE LET d == Run("rowDoc", <<columns, 1, values[1], b, EmptyObj>>) IN
         IF d.err # "" THEN d
         ELSE Run("valueDocs", <<columns, Tail(values), d.b, Append(docs, d.v)>>)

\* doc[c.name] = r[c.alias || c.name] for each declared column of a fetched row.
RECURSIVE selectedDoc(_, _, _)
selectedDoc(columns, r, doc) ==
    IF columns = <<>> THEN doc
    ELSE selectedDoc(Tail(columns), r,
                     Put(doc, columns[1].name, Get(r, aliasOrName(columns[1]))))

\* rows is what the store answers to the nested SELECT's aggregate.
_execInsert(a, b, tbls, sess, rows) ==
    LET col == _getCollection(tbls, a.into.name) IN
    IF col.err # "" THEN col
    ELSE IF "values" \in DOMAIN a THEN
        LET docs == Run("valueDocs", <<a.columns, a.values, b, <<>> >>) IN
        IF docs.err # "" THEN docs
        ELSE Done(docs.b, << [cmd |-> "insertMany", collection |-> col.v,
                              docs |-> docs.v, opts |-> sessionOpts(sess)] >>)
    ELSE IF "select" \in DOMAIN a THEN
        LET sel == Run("_execSelect", <<a.select, b, tbls, sess>>) IN
        IF sel.err # "" THEN sel
        ELSE Done(sel.b, sel.cmds \o
                  << [cmd |-> "insertMany", collection |-> col.v,
                      docs |-> [k \in 1..Len(rows) |-> selectedDoc(a.columns, rows[k], EmptyObj)],
                      opts |-> sessionOpts(sess)] >>)
    ELSE Throw("INSERT must have VALUES or SELECT")

(***************************************************************************)
(* Transactions.  Each returns [err, session, nSessions, cmds].            *)
(***************************************************************************)
_begin(client, sess, n) ==
    IF ~client THEN Throw("BEGIN requires a Mongo client to create sessions")
    ELSE IF sess # 0 THEN Throw("Transaction already started")
    ELSE [err |-> "", session |-> n + 1, nSessions |-> n + 1,
          cmds |-> << [cmd |-> "startSession", session |-> n + 1],
                      [cmd |-> "startTransaction", session |-> n + 1] >>]

\* _commit without the assignment this.session = null.
commitKeepsSession(sess, n) ==
    IF sess = 0 THEN Throw("No active transaction")
    ELSE [err |-> "", session |-> sess, nSessions |-> n,
          cmds |-> << [cmd |-> "commitTransaction", session |-> sess],
                      [cmd |-> "endSession", session |-> sess] >>]

_commit(sess, n) ==
    IF sess = 0 THEN Throw("No active transaction")
    ELSE [err |-> "", session |-> 0, nSessions |-> n,
          cmds |-> << [cmd |-> "commitTransaction", session |-> sess],
                      [cmd |-> "endSession", session |-> sess] >>]

_rollback(sess, n) ==
    IF sess = 0 THEN Throw("No active transaction")
    ELSE [err |-> "", session |-> 0, nSessions |-> n,
          cmds |-> << [cmd |-> "abortTransaction", session |-> sess],
                      [cmd |-> "endSession", session |-> sess] >>]

(***************************************************************************)
(* query(): parse, bind, dispatch on the statement type.                   *)
(***************************************************************************)
\* The switch of query(): [err, b, cmds, session, nSessions].
execStatement(a, b, rows, tbls, sess, client, n) ==
    LET same(r) == IF r.err # "" THEN r
                   ELSE [err |-> "", b |-> r.b, cmds |-> r.cmds, session |-> sess,
                         nSessions |-> n]
        tx(r) == IF r.err # "" THEN r
                 ELSE [err |-> "", b |-> b, cmds |-> r.cmds, session |-> r.session,
                       nSessions |-> r.nSessions]
    IN
    CASE a.type = "BEGIN" -> tx(_begin(client, sess, n))
      [] a.type = "COMMIT" -> tx(_commit(sess, n))
      [] a.type = "ROLLBACK" -> tx(_rollback(sess, n))
      [] a.type = "INSERT" -> same(Run("_execInsert", <<a, b, tbls, sess, rows>>))
      [] a.type = "UPDATE" -> same(Run("_execUpdate", <<a, b, tbls, sess>>))
      [] a.type = "DELETE" -> same(Run("_execDelete", <<a, b, tbls, sess>>))
      [] a.type = "SELECT" -> same(Run("_execSelect", <<a, b, tbls, sess>>))
      [] OTHER -> Throw("Unsupported statement type: " \o a.type)

\* A call that throws has sent the commands cmds before the throw.
\* query(sql, namedParams, positionalParams) on an instance whose registry is
\* tbls, whose session is sess, built with a client or not, whose client has
\* started n sessions: [ast, err, b, cmds, session, nSessions].  rows is what
\* the store answers to the SELECT of an INSERT ... SELECT.
query(sql, named, positional, rows, tbls, sess, client, n) ==
    LET parsed == Run("parseStatement", <<sql>>)
        binder == ParamBinder(named, positional)
        r == Run("execStatement", <<parsed.n, binder, rows, tbls, sess, client, n>>)
    IN  IF parsed.err # "" THEN [ast |-> parsed, err |-> parsed.err, cmds |-> <<>>]
        ELSE IF r.err # ""
        THEN [ast |-> parsed, err |-> r.err,
              cmds |-> IF "cmds" \in DOMAIN r THEN r.cmds ELSE <<>>]
        ELSE [ast |-> parsed, err |-> "", b |-> r.b, cmds |-> r.cmds,
              session |-> r.session, nSessions |-> r.nSessions]

Run(f, args) ==
    CASE f = "_expectIdent" -> _expectIdent(args[1], args[2])
      [] f = "_peekIdent" -> _peekIdent(args[1], args[2])
      [] f = "_tryKW" -> _tryKW(args[1], args[2], args[3])
      [] f = "_eatKW" -> _eatKW(args[1], args[2], args[3])
      [] f = "_expectKW" -> _expectKW(args[1], args[2], args[3])
      [] f = "_isOp" -> _isOp(args[1], args[2], args[3])
      [] f = "_expectOp" -> _expectOp(args[1], args[2], args[3])
      [] f = "_eatOp" -> _eatOp(args[1], args[2], args[3])
      [] f = "argsLoop" -> argsLoop(args[1], args[2], args[3])
      [] f = "parsePrimary" -> parsePrimary(args[1], args[2])
      [] f = "parseValue" -> parseValue(args[1], args[2])
      [] f = "valuesLoop" -> valuesLoop(args[1], args[2], args[3])
      [] f = "parseValueList" -> parseValueList(args[1], args[2])
      [] f = "parseUnary" -> parseUnary(args[1], args[2])
      [] f = "mulLoop" -> mulLoop(args[1], args[2], args[3])
      [] f = "parseMul" -> parseMul(args[1], args[2])
      [] f = "addLoop" -> addLoop(args[1], args[2], args[3])
      [] f = "parseAdd" -> parseAdd(args[1], args[2])
      [] f = "parseComparison" -> parseComparison(args[1], args[2])
      [] f = "parseNot" -> parseNot(args[1], args[2])
      [] f = "andLoop" -> andLoop(args[1], args[2], args[3])
      [] f = "parseAnd" -> parseAnd(args[1], args[2])
      [] f = "orLoop" -> orLoop(args[1], args[2], args[3])
      [] f = "parseOr" -> parseOr(args[1], args[2])
      [] f = "parseExpr" -> parseExpr(args[1], args[2])
      [] f = "parseTableRef" -> parseTableRef(args[1], args[2])
      [] f = "parseTableRefNoAlias" -> parseTableRefNoAlias(args[1], args[2])
      [] f = "parseField" -> parseField(args[1], args[2])
      [] f = "parseSelectItem" -> parseSelectItem(args[1], args[2])
      [] f = "selectListLoop" -> selectListLoop(args[1], args[2], args[3])
      [] f = "parseSelectList" -> parseSelectList(args[1], args[2])
      [] f = "orderByLoop" -> orderByLoop(args[1], args[2], args[3])
      [] f = "parseOrderByList" -> parseOrderByList(args[1], args[2])
      [] f = "fieldListLoop" -> fieldListLoop(args[1], args[2], args[3])
      [] f = "parseFieldList" -> parseFieldList(args[1], args[2])
      [] f = "identListLoop" -> identListLoop(args[1], args[2], args[3])
      [] f = "parseIdentList" -> parseIdentList(args[1], args[2])
      [] f = "parseNumberLit" -> parseNumberLit(args[1], args[2])
      [] f = "parseJoinCondition" -> parseJoinCondition(args[1], args[2])
      [] f = "joinAhead" -> joinAhead(args[1], args[2])
      [] f = "joinType" -> joinType(args[1], args[2])
      [] f = "joinLoop" -> joinLoop(args[1], args[2], args[3])
      [] f = "parseWhere" -> parseWhere(args[1], args[2])
      [] f = "parseGroupBy" -> parseGroupBy(args[1], args[2])
      [] f = "parseHaving" -> parseHaving(args[1], args[2])
      [] f = "parseOrderBy" -> parseOrderBy(args[1], args[2])
      [] f = "parseLimit" -> parseLimit(args[1], args[2])
      [] f = "parseOffset" -> parseOffset(args[1], args[2])
      [] f = "parseSelect" -> parseSelect(args[1], args[2])
      [] f = "parseSelectAfterInitial" -> parseSelectAfterInitial(args[1], args[2])
      [] f = "rowsLoop" -> rowsLoop(args[1], args[2], args[3])
      [] f = "parseInsertColumns" -> parseInsertColumns(args[1], args[2])
      [] f = "parseInsert" -> parseInsert(args[1], args[2])
      [] f = "setLoop" -> setLoop(args[1], args[2], args[3])
      [] f = "parseUpdate" -> parseUpdate(args[1], args[2])
      [] f = "parseDelete" -> parseDelete(args[1], args[2])
      [] f = "parseStatement" -> parseStatement(args[1])
      [] f = "bindValue" -> bindValue(args[1], args[2])
      [] f = "bindEach" -> bindEach(args[1], args[2], args[3])
      [] f = "setEach" -> setEach(args[1], args[2], args[3])
      [] f = "buildUpdate" -> buildUpdate(args[1], args[2])
      [] f = "matchLeaf" -> matchLeaf(args[1], args[2], args[3], args[4], args[5])
      [] f = "buildMatch" -> buildMatch(args[1], args[2], args[3])
      [] f = "buildHaving" -> buildHaving(args[1], args[2])
      [] f = "exprEach" -> exprEach(args[1], args[2], args[3], args[4], args[5], args[6])
      [] f = "toMongoExpr" -> toMongoExpr(args[1], args[2], args[3], args[4], args[5])
      [] f = "toMongoAgg" -> toMongoAgg(args[1], args[2], args[3], args[4])
      [] f = "joinStages" -> joinStages(args[1], args[2], args[3], args[4])
      [] f = "groupKeys" -> groupKeys(args[1], args[2], args[3], args[4], args[5])
      [] f = "groupAggregates" -> groupAggregates(args[1], args[2], args[3], args[4], args[5])
      [] f = "projectColumns" -> projectColumns(args[1], args[2], args[3], args[4], args[5])
      [] f = "groupStages" -> groupStages(args[1], args[2], args[3])
      [] f = "projectStages" -> projectStages(args[1], args[2], args[3])
      [] f = "_execSelect" -> _execSelect(args[1], args[2], args[3], args[4])
      [] f = "_execUpdate" -> _execUpdate(args[1], args[2], args[3], args[4])
      [] f = "_execDelete" -> _execDelete(args[1], args[2], args[3], args[4])
      [] f = "rowDoc" -> rowDoc(args[1], args[2], args[3], args[4], args[5])
      [] f = "valueDocs" -> valueDocs(args[1], args[2], args[3], args[4])
      [] f = "_execInsert" -> _execInsert(args[1], args[2], args[3], args[4], args[5])
      [] f = "execStatement" -> execStatement(args[1], args[2], args[3], args[4], args[5], args[6], args[7])
      [] f = "query" -> query(args[1], args[2], args[3], args[4], args[5], args[6], args[7], args[8])

(***************************************************************************)
(* The statements, parameters and tables the model draws from              *)
(***************************************************************************)
MaxJoins == 2
MaxPositional == 4
MaxSessions == 2

TableNames == {"users", "orders", "products"}

\* Fragments of statements, as token sequences.
Dot(a, b) == <<Id(a), Op("."), Id(b)>>
CountOf(arg) == <<Id("COUNT"), Op("(")>> \o arg \o <<Op(")")>>
Select(list) == <<Id("SELECT")>> \o list \o <<Id("FROM")>>
UsersU == <<Id("users"), Id("u")>>
OrdersOn == <<Id("orders"), Id("o"), Id("ON")>> \o Dot("o", "userId") \o <<Op("=")>> \o Dot("u", "_id")
ProductsOn ==
    <<Id("products"), Id("AS"), Id("p"), Id("ON")>> \o Dot("p", "_id") \o <<Op("=")>>
        \o Dot("o", "productId")
GroupByName == <<Id("GROUP"), Id("BY")>> \o Dot("u", "name")
HavingCount(rhs) == <<Id("HAVING")>> \o CountOf(Dot("o", "_id")) \o <<Op(">"), rhs>>
AgeOver(rhs) == <<Id("WHERE"), Id("age"), Op(">"), rhs>>
Three == NumTok(<<"3">>)
TwentyFive == NumTok(<<"2", "5">>)

\* The k-th join target of a statement: orders o, then products p, in turn.
JoinTarget(k) == IF k % 2 = 1 THEN OrdersOn ELSE ProductsOn

\* k joins written with the bare JOIN keyword.
RECURSIVE PlainJoins(_)
PlainJoins(k) ==
    IF k = 0 THEN <<>> ELSE PlainJoins(k - 1) \o <<Id("JOIN")>> \o JoinTarget(k)

JoinKeywords == { <<Id("JOIN")>>, <<Id("INNER"), Id("JOIN")>>, <<Id("LEFT"), Id("JOIN")>>,
                  <<Id("LEFT"), Id("OUTER"), Id("JOIN")>> }

TableRefs == { <<Id("users")>>, UsersU, <<Id("users"), Id("AS"), Id("u")>> }

\* SELECT statements that vary in which clauses are present.
ClauseStatements ==
    { Select(sl) \o UsersU \o PlainJoins(k) \o wc \o gc \o oc \o lc \o fc :
        sl \in { <<Op("*")>>, Dot("u", "name") \o <<Id("AS"), Id("name")>> },
        k \in 0..MaxJoins,
        wc \in { <<>>, AgeOver(TwentyFive) },
        gc \in { <<>>, GroupByName,
                 GroupByName \o <<Id("HAVING"), Id("name"), Op("="), StrTok("NG")>>,
                 <<Id("HAVING"), Id("name"), Op("="), StrTok("NG")>> },
        oc \in { <<>>, <<Id("ORDER"), Id("BY"), Id("name"), Id("ASC")>> },
        lc \in { <<>>, <<Id("LIMIT"), NumTok(<<"1", "0">>)>> },
        fc \in { <<>>, <<Id("OFFSET"), NumTok(<<"5">>)>> } }

\* A table reference in each form, directly followed by each clause.
TableRefStatements ==
    { Select(<<Op("*")>>) \o tr \o clause :
        tr \in TableRefs,
        clause \in { <<>>, AgeOver(TwentyFive), GroupByName,
                     <<Id("HAVING"), Id("name"), Op("="), StrTok("NG")>>,
                     <<Id("ORDER"), Id("BY"), Id("name"), Id("DESC")>>,
                     <<Id("LIMIT"), NumTok(<<"1", "0">>)>>,
                     <<Id("OFFSET"), NumTok(<<"5">>)>> } }

\* One join in each spelling, after an aliased and an un-aliased table.
JoinStatements ==
    { Select(<<Op("*")>>) \o tr \o kw \o OrdersOn \o wc :
        tr \in { <<Id("users")>>, UsersU }, kw \in JoinKeywords,
        wc \in { <<>>, AgeOver(TwentyFive) } }

\* SELECT * FROM users u JOIN orders o ON <condition>, the condition written
\* with the field of users first and with the field of orders first.
JoinOrderStatements ==
    { Select(<<Op("*")>>) \o UsersU \o <<Id("JOIN"), Id("orders"), Id("o"), Id("ON")>> \o cond :
        cond \in { Dot("u", "_id") \o <<Op("=")>> \o Dot("o", "userId"),
                   Dot("o", "userId") \o <<Op("=")>> \o Dot("u", "_id") } }

\* Aggregates in the select list, with and without alias, and HAVING.
AggregateStatements ==
    { Select(sl) \o UsersU \o kw \o OrdersOn \o GroupByName \o hc :
        sl \in { Dot("u", "name") \o <<Op(",")>> \o CountOf(Dot("o", "_id"))
                     \o <<Id("AS"), Id("orders")>>,
                 CountOf(Dot("o", "_id")) \o <<Op(",")>> \o Dot("u", "name")
                     \o <<Id("AS"), Id("name")>> },
        kw \in { <<Id("JOIN")>>, <<Id("LEFT"), Id("JOIN")>> },
        hc \in { <<>>, HavingCount(Three), HavingCount(ParamPos),
                 <<Id("HAVING"), Id("total"), Op(">"), Three>> } }

\* The scenarios of the specification and the statements of the README.
Scenario1 ==
    Select(<<Op("*")>>) \o <<Id("users")>> \o AgeOver(TwentyFive)
        \o <<Id("ORDER"), Id("BY"), Id("name"), Id("ASC"), Id("LIMIT"), NumTok(<<"1", "0">>)>>
Scenario2 ==
    Select(<<Id("name"), Op(","), Id("age")>>)
        \o <<Id("users"), Id("WHERE"), Id("city"), Op("="), StrTok("New York")>>
Scenario3 ==
    <<Id("INSERT"), Id("INTO"), Id("products"), Op("("), Id("name"), Op(","), Id("price"),
      Op(","), Id("category"), Op(")"), Id("VALUES"), Op("("), StrTok("Laptop"), Op(","),
      NumTok(<<"1", "2", "0", "0">>), Op(","), StrTok("Electronics"), Op(")")>>
Scenario4 ==
    <<Id("UPDATE"), Id("products"), Id("SET"), Id("price"), Op("="),
      NumTok(<<"1", "1", "5", "0">>), Id("WHERE"), Id("name"), Op("="), StrTok("Laptop")>>
Scenario5 ==
    <<Id("DELETE"), Id("FROM"), Id("products"), Id("WHERE"), Id("category"), Op("="),
      StrTok("Electronics")>>
Scenario6 ==
    Select(Dot("u", "name") \o <<Op(",")>> \o CountOf(Dot("o", "_id")) \o <<Id("AS"), Id("orders")>>)
        \o UsersU \o <<Id("LEFT"), Id("JOIN")>> \o OrdersOn \o GroupByName \o HavingCount(Three)
Readme1 ==
    Select(Dot("u", "_id") \o <<Id("as"), Id("userId"), Op(",")>> \o Dot("u", "name")
           \o <<Op(",")>> \o CountOf(Dot("o", "_id")) \o <<Id("AS"), Id("orders")>>)
        \o UsersU \o <<Id("LEFT"), Id("JOIN")>> \o OrdersOn
        \o <<Id("WHERE")>> \o Dot("u", "country") \o <<Op("="), ParamNamed("country")>>
        \o <<Id("GROUP"), Id("BY")>> \o Dot("u", "_id") \o <<Op(",")>> \o Dot("u", "name")
        \o HavingCount(ParamPos)
        \o <<Id("ORDER"), Id("BY"), Id("orders"), Id("DESC"), Id("LIMIT"),
             NumTok(<<"1", "0">>), Id("OFFSET"), NumTok(<<"0">>)>>
Readme2 ==
    <<Id("INSERT"), Id("INTO"), Id("users"), Op("("), Id("name"), Op(","), Id("country"),
      Op(")"), Id("VALUES"), Op("("), ParamNamed("name"), Op(","), ParamNamed("country"),
      Op(")")>>
Readme3 ==
    <<Id("UPDATE"), Id("users"), Id("SET"), Id("country"), Op("="), StrTok("US"),
      Id("WHERE"), Id("name"), Id("LIKE"), StrTok("A%")>>
Readme4 ==
    <<Id("DELETE"), Id("FROM"), Id("users"), Id("WHERE"), Id("country"), Op("="), StrTok("US")>>

\* Statements with parameter markers in several clauses.
SelectPosWhere ==
    Select(<<Id("price"), Op("*"), ParamPos, Id("AS"), Id("total")>>) \o UsersU
        \o AgeOver(ParamPos)
SelectBetween ==
    Select(<<Op("*")>>) \o UsersU \o <<Id("WHERE"), Id("age"), Id("BETWEEN"), ParamPos,
                                       Id("AND"), ParamPos>>
SelectBetweenLit ==
    Select(<<Op("*")>>) \o UsersU \o <<Id("WHERE"), Id("age"), Id("BETWEEN"),
                                       NumTok(<<"1", "8">>), Id("AND"), NumTok(<<"6", "5">>)>>
UpdatePos ==
    <<Id("UPDATE"), Id("products"), Id("SET"), Id("price"), Op("="), ParamPos,
      Id("WHERE"), Id("name"), Op("="), ParamPos>>
DeletePos ==
    <<Id("DELETE"), Id("FROM"), Id("products"), Id("WHERE"), Id("price"), Op("<"), ParamPos>>
InsertPos ==
    <<Id("INSERT"), Id("INTO"), Id("products"), Op("("), Id("name"), Op(","), Id("price"),
      Op(")"), Id("VALUES"), Op("("), ParamPos, Op(","), ParamPos, Op(")")>>
SelectHavingPos ==
    Select(CountOf(Dot("o", "_id")) \o <<Op(",")>> \o Dot("u", "name") \o <<Id("AS"), Id("name")>>)
        \o UsersU \o <<Id("JOIN")>> \o OrdersOn \o AgeOver(ParamPos) \o GroupByName
        \o HavingCount(ParamPos)
SelectNamed(name) ==
    Select(<<Op("*")>>) \o UsersU \o <<Id("WHERE")>> \o Dot("u", "country")
        \o <<Op("="), ParamNamed(name)>>

ParamStatements ==
    { SelectPosWhere, SelectBetween, SelectBetweenLit, UpdatePos, DeletePos, InsertPos,
      SelectHavingPos, SelectNamed("country"), SelectNamed("toString") }

TransactionStatements == { <<Id("BEGIN")>>, <<Id("COMMIT")>>, <<Id("ROLLBACK")>> }

\* Numbers and comparisons used in WHERE clauses.
One == NumTok(<<"1">>)
Two == NumTok(<<"2">>)
Compare(field, op, rhs) == <<Id(field), Op(op), rhs>>

\* A leaf predicate with each comparison operator, IS [NOT] NULL, [NOT] IN,
\* LIKE, and the connectives.
LeafPredicates ==
    { Compare("name", op, StrTok("Laptop")) : op \in ComparisonOps }
        \cup { <<Id("name"), Id("IS"), Id("NULL")>>,
               <<Id("name"), Id("IS"), Id("NOT"), Id("NULL")>> }
ConnectivePredicates ==
    { Compare("age", "=", One) \o <<Id("AND")>> \o Compare("price", ">", Two),
      Compare("age", "=", One) \o <<Id("OR")>> \o Compare("price", ">", Two),
      <<Id("NOT")>> \o Compare("age", "=", One) }
\* name IN (...) and name NOT IN (...).
ListOf(vals) ==
    <<Op("(")>> \o [k \in 1..(2 * Len(vals) - 1) |->
                       IF k % 2 = 1 THEN vals[(k + 1) \div 2] ELSE Op(",")] \o <<Op(")")>>
MembershipPredicates ==
    { <<Id("name"), Id("IN")>> \o ListOf(vals) :
        vals \in { <<StrTok("Laptop"), StrTok("NG")>>, <<StrTok("Laptop")>>,
                   <<ParamPos, ParamPos>> } }
      \cup { <<Id("name"), Id("IN"), Op("("), Op(")")>>,
              <<Id("name"), Id("NOT"), Id("IN")>> \o ListOf(<<StrTok("Laptop"), StrTok("NG")>>) }
\* A comparison whose left side is a literal, and an operator that is no comparison.
UnsupportedPredicates ==
    { <<StrTok("Laptop"), Op("="), Id("name")>>, <<Id("name"), Op("+"), One>>,
      Compare("age", "=", One) \o <<Id("AND"), StrTok("NG"), Op("="), Id("name")>> }
\* name LIKE pattern.
LikePredicates == { <<Id("name"), Id("LIKE"), StrTok(p)>> : p \in {"A%", "A_B", "a.b%"} }
WherePredicates ==
    LeafPredicates \cup ConnectivePredicates \cup MembershipPredicates \cup UnsupportedPredicates
        \cup LikePredicates

\* UPDATE and DELETE with and without a WHERE clause.
UpdateProducts ==
    <<Id("UPDATE"), Id("products"), Id("SET"), Id("price"), Op("="),
      NumTok(<<"1", "1", "5", "0">>)>>
DeleteProducts == <<Id("DELETE"), Id("FROM"), Id("products")>>
DmlStatements ==
    { head \o wc : head \in { UpdateProducts, DeleteProducts },
                   wc \in { <<>> } \cup { <<Id("WHERE")>> \o w : w \in WherePredicates } }

\* INSERT INTO products (name, price) VALUES with one or two rows; a row has
\* as many values as there are columns, one fewer, or one more.
InsertProducts ==
    <<Id("INSERT"), Id("INTO"), Id("products"), Op("("), Id("name"), Op(","), Id("price"),
      Op(")"), Id("VALUES")>>
Row2(x, y) == <<Op("("), x, Op(","), y, Op(")")>>
FullRows ==
    { Row2(StrTok("Laptop"), NumTok(<<"1", "2", "0", "0">>)), Row2(ParamPos, ParamPos),
      Row2(Id("NULL"), Id("TRUE")) }
ShortRow == <<Op("("), StrTok("Laptop"), Op(")")>>
LongRow == <<Op("("), StrTok("Laptop"), Op(","), One, Op(","), StrTok("NG"), Op(")")>>
InsertStatements ==
    { InsertProducts \o r : r \in FullRows \cup { ShortRow, LongRow } }
        \cup { InsertProducts \o r1 \o <<Op(",")>> \o r2 :
                 r1 \in FullRows, r2 \in FullRows \cup { ShortRow, LongRow } }

\* Statements naming a table nobody registers, and one spelling a table name
\* in another case.
GhostStatements ==
    { Select(<<Op("*")>>) \o <<Id("Users"), Id("u")>>,
      Select(<<Op("*")>>) \o <<Id("ghosts"), Id("g")>>,
      Select(<<Op("*")>>) \o UsersU
          \o <<Id("JOIN"), Id("ghosts"), Id("g"), Id("ON")>> \o Dot("g", "userId")
          \o <<Op("=")>> \o Dot("u", "_id"),
      <<Id("DELETE"), Id("FROM"), Id("ghosts")>>,
      <<Id("UPDATE"), Id("ghosts"), Id("SET"), Id("price"), Op("="), One>>,
      <<Id("INSERT"), Id("INTO"), Id("ghosts"), Op("("), Id("name"), Op(")"), Id("VALUES"),
        Op("("), StrTok("Laptop"), Op(")")>> }

\* SELECT u.name, AGG(arg) AS spent FROM users u GROUP BY u.name.
CallOf(name, arg) == <<Id(name), Op("(")>> \o arg \o <<Op(")")>>
ReducerCalls ==
    { CallOf("COUNT", arg) :
        arg \in { <<Op("*")>>, <<>>, Dot("u", "total"), <<Id("total")>> } }
      \cup { CallOf(name, arg) :
                name \in {"SUM", "AVG", "MIN", "MAX"},
                arg \in { Dot("u", "total"), <<Id("price"), Op("*"), Two>> } }
ReducerStatements ==
    { Select(Dot("u", "name") \o <<Op(",")>> \o agg \o <<Id("AS"), Id("spent")>>)
          \o UsersU \o GroupByName : agg \in ReducerCalls }

\* WHERE expressions mixing the operator levels, each with the tree it denotes.
Fld(name) == [type |-> "Field", name |-> name]
Lit(n) == [type |-> "Number", value |-> Num(n)]
Bin(op, l, r) == [type |-> "Binary", op |-> op, left |-> l, right |-> r]
Neg(x) == [type |-> "Call", name |-> "NEG", args |-> <<x>>]
Not(x) == [type |-> "Unary", op |-> "NOT", expr |-> x]
Eq(field, numTok) == <<Id(field), Op("="), numTok>>
Arith(x, op1, y, op2, z) == <<Id(x), Op(op1), Id(y), Op(op2), Id(z), Op(">"), One>>
PrecedenceCases == <<
    << Eq("a", One) \o <<Id("OR")>> \o Eq("b", Two) \o <<Id("AND")>> \o Eq("c", Three),
       Bin("OR", Bin("=", Fld("a"), Lit(1)),
                 Bin("AND", Bin("=", Fld("b"), Lit(2)), Bin("=", Fld("c"), Lit(3)))) >>,
    << <<Id("NOT")>> \o Eq("a", One) \o <<Id("AND")>> \o Eq("b", Two),
       Bin("AND", Not(Bin("=", Fld("a"), Lit(1))), Bin("=", Fld("b"), Lit(2))) >>,
    << Arith("a", "+", "b", "*", "c"),
       Bin(">", Bin("+", Fld("a"), Bin("*", Fld("b"), Fld("c"))), Lit(1)) >>,
    << Arith("a", "*", "b", "+", "c"),
       Bin(">", Bin("+", Bin("*", Fld("a"), Fld("b")), Fld("c")), Lit(1)) >>,
    << Arith("a", "-", "b", "-", "c"),
       Bin(">", Bin("-", Bin("-", Fld("a"), Fld("b")), Fld("c")), Lit(1)) >>,
    << Arith("a", "/", "b", "*", "c"),
       Bin(">", Bin("*", Bin("/", Fld("a"), Fld("b")), Fld("c")), Lit(1)) >>,
    << Eq("a", One) \o <<Id("OR")>> \o Eq("b", Two) \o <<Id("OR")>> \o Eq("c", Three),
       Bin("OR", Bin("OR", Bin("=", Fld("a"), Lit(1)), Bin("=", Fld("b"), Lit(2))),
                 Bin("=", Fld("c"), Lit(3))) >>,
    << Eq("a", One) \o <<Id("AND")>> \o Eq("b", Two) \o <<Id("OR")>> \o Eq("c", Three),
       Bin("OR", Bin("AND", Bin("=", Fld("a"), Lit(1)), Bin("=", Fld("b"), Lit(2))),
                 Bin("=", Fld("c"), Lit(3))) >>,
    << Eq("a", One) \o <<Id("AND")>> \o Eq("b", Two) \o <<Id("AND")>> \o Eq("c", Three),
       Bin("AND", Bin("AND", Bin("=", Fld("a"), Lit(1)), Bin("=", Fld("b"), Lit(2))),
                  Bin("=", Fld("c"), Lit(3))) >>,
    << <<Op("-"), Id("a"), Op("*"), Id("b"), Op(">"), One>>,
       Bin(">", Bin("*", Neg(Fld("a")), Fld("b")), Lit(1)) >>,
    << <<Id("a"), Op("<"), Id("b"), Op("+"), Id("c")>>,
       Bin("<", Fld("a"), Bin("+", Fld("b"), Fld("c"))) >>,
    << <<Id("NOT"), Op("(")>> \o Eq("a", One) \o <<Id("OR")>> \o Eq("b", Two)
           \o <<Op(")"), Id("AND")>> \o Eq("c", Three),
       Bin("AND", Not(Bin("OR", Bin("=", Fld("a"), Lit(1)), Bin("=", Fld("b"), Lit(2)))),
                  Bin("=", Fld("c"), Lit(3))) >> >>
PrecedenceStatement(k) ==
    Select(<<Op("*")>>) \o UsersU \o <<Id("WHERE")>> \o PrecedenceCases[k][1]
PrecedenceStatements == { PrecedenceStatement(k) : k \in 1..Len(PrecedenceCases) }

\* Comparisons and assignments whose value operand is computed: another
\* field, a function call, a sum, a negated number.
ComputedOperands ==
    { <<Id("category")>>, CallOf("UPPER", <<Id("category")>>),
      <<Id("category"), Op("+"), Id("city")>>, <<Op("-"), NumTok(<<"5">>)>> }
ComputedOperandStatements ==
    { DeleteProducts \o <<Id("WHERE"), Id("city"), Op(">")>> \o x : x \in ComputedOperands }
        \cup { <<Id("UPDATE"), Id("products"), Id("SET"), Id("name"), Op("=")>> \o x :
                 x \in { <<Id("category")>>, CallOf("UPPER", <<Id("category")>>) } }
        \cup { Select(Dot("u", "name") \o <<Id("AS"), Id("name")>>) \o UsersU \o GroupByName
                   \o <<Id("HAVING"), Id("spent"), Op(">"), Id("total")>> }

\* SELECT COUNT(o._id) AS orders FROM users u JOIN orders o ON o.userId = u._id
\* GROUP BY <fields>: one field, two fields of one table, the _id of both tables.
GroupKeyStatements ==
    { Select(CountOf(Dot("o", "_id")) \o <<Id("AS"), Id("orders")>>) \o UsersU
          \o <<Id("JOIN")>> \o OrdersOn \o <<Id("GROUP"), Id("BY")>> \o keys :
        keys \in { Dot("u", "_id"),
                   Dot("u", "name") \o <<Op(",")>> \o Dot("u", "city"),
                   Dot("u", "_id") \o <<Op(",")>> \o Dot("o", "_id") } }

\* Statements with tokens after their last clause.
TrailingStatements ==
    { <<Id("BEGIN"), Id("xyz")>>,
      <<Id("UPDATE"), Id("products"), Id("SET"), Id("name"), Op("="), Id("name"), Op("+"),
        NumTok(<<"1">>)>>,
      Select(<<Op("*")>>) \o UsersU
          \o <<Id("OFFSET"), NumTok(<<"5">>), Id("LIMIT"), NumTok(<<"2">>)>> }

\* A character no token starts with, put at each place of a statement of
\* each kind: before it, between any two of its tokens, after it.
InsertAt(sql, k, tok) == SubSeq(sql, 1, k) \o <<tok>> \o SubSeq(sql, k + 1, Len(sql))
BadCharBases ==
    { <<Id("BEGIN")>>,
      Select(<<Op("*")>>) \o UsersU
          \o <<Id("WHERE"), Id("name"), Op("="), StrTok("NG"), Id("LIMIT"), NumTok(<<"1", "0">>),
               Id("OFFSET"), NumTok(<<"5">>)>>,
      DeleteProducts \o <<Id("WHERE"), Id("name"), Op("="), StrTok("Laptop")>>,
      UpdateProducts,
      InsertProducts \o Row2(StrTok("Laptop"), NumTok(<<"1", "2", "0", "0">>)) }
BadCharStatements ==
    UNION { { InsertAt(sql, k, Unexpected("#")) : k \in 0..Len(sql) } : sql \in BadCharBases }

Statements ==
    ClauseStatements \cup TableRefStatements \cup JoinStatements \cup AggregateStatements \cup ParamStatements
        \cup TransactionStatements \cup DmlStatements \cup InsertStatements
        \cup GhostStatements \cup ReducerStatements \cup PrecedenceStatements
        \cup BadCharStatements \cup JoinOrderStatements
        \cup ComputedOperandStatements \cup TrailingStatements \cup GroupKeyStatements
        \cup { Scenario1, Scenario2, Scenario3, Scenario4, Scenario5, Scenario6,
               Readme1, Readme2, Readme3, Readme4 }

\* The named-parameter objects and positional lists callers pass.
NamedParams ==
    { EmptyObj, D1("country", Str("NG")), D1("country", JSNull), D1("country", JSUndefined),
      D2("name", Str("Ada"), "country", Str("NG")) }

\* The first n of the positional values 101, 102, ...
Positional(n) == [k \in 1..n |-> Num(100 + k)]
PositionalParams == { Positional(n) : n \in 0..MaxPositional }

HasToken(sql, type) == \E k \in 1..Len(sql) : sql[k].type = type

\* Parameters are passed to the statements that have markers for them.
NamedFor(sql) == IF HasToken(sql, "param_named") THEN NamedParams ELSE { EmptyObj }
PositionalFor(sql) == IF HasToken(sql, "param_pos") THEN PositionalParams ELSE { <<>> }

(***************************************************************************)
(* The instance                                                            *)
(***************************************************************************)
NoCall == [idle |-> TRUE]

Init ==
    /\ tables = [k \in {} |-> tableMeta("", "")]
    /\ session = 0
    /\ hasClient \in BOOLEAN
    /\ issued = <<>>
    /\ call = NoCall
    /\ ast = NoCall
    /\ outcome = NoCall
    /\ nSessions = 0
    /\ tokenizer = NoCall
    /\ handed = <<>>
    /\ pending = <<>>

\* registerTable(name, { collection: name })
RegisterTable(name) ==
    /\ call = NoCall
    /\ tables' = (ToLowerCase(name) :> tableMeta(name, name)) @@ tables
    /\ UNCHANGED <<session, hasClient, issued, call, ast, outcome, nSessions, tokenizer, handed, pending>>

\* query(sql, named, positional), awaited to its end.
Query(sql, named, positional, rows) ==
    /\ call = NoCall
    /\ \E r \in { Run("query", <<sql, named, positional, rows, tables, session,
                               hasClient, nSessions>>) } :
           /\ r.err = "" => r.nSessions <= MaxSessions
           /\ call' = [sql |-> sql, named |-> named, positional |-> positional]
           /\ ast' = r.ast
           /\ IF r.err # "" THEN
                  /\ outcome' = [err |-> r.err]
                  /\ issued' = r.cmds
                  /\ UNCHANGED <<session, nSessions>>
              ELSE
                  /\ outcome' = [err |-> "", posIndex |-> r.b.posIndex, trace |-> r.b.trace]
                  /\ issued' = r.cmds
                  /\ session' = r.session
                  /\ nSessions' = r.nSessions
    /\ UNCHANGED <<tables, hasClient, tokenizer, handed, pending>>

\* The caller has taken the result; the call's tokenizer, parser and binder are gone.
Return ==
    /\ call # NoCall
    /\ call' = NoCall
    /\ ast' = NoCall
    /\ outcome' = NoCall
    /\ issued' = <<>>
    /\ UNCHANGED <<tables, session, hasClient, nSessions, tokenizer, handed, pending>>

Next ==
    \/ \E name \in TableNames : RegisterTable(name)
    \/ /\ call = NoCall
       /\ \E sql \in Statements :
            \E named \in NamedFor(sql), positional \in PositionalFor(sql) :
                Query(sql, named, positional, <<>>)
    \/ Return

Spec == Init /\ [][Next]_vars

(***************************************************************************)
(* A Tokenizer driven by hand: a caller constructs it over a text and      *)
(* calls peek() and next() in any order.                                   *)
(***************************************************************************)
MaxCalls == 6

TokenizerInputs ==
    { <<>>,
      <<"a", " ", ">", "=", "1">>,
      <<"x", "-", "-", "c", "\n", "y">>,
      <<"a", "/", "*", "b", "*", "/", "?">>,
      <<"'", "a", " ", "b", "'", ",", ":", "n">>,
      <<"1", ".", "5", "<", ">", "b">>,
      <<"a", " ", "#", "b">>,
      <<"'", "a", "\\">>,
      <<"a", "/", "*", "b">>,
      <<"a", "-", "1", " ", " ">> }

TokenizerInit ==
    /\ tables = [k \in {} |-> tableMeta("", "")]
    /\ session = 0
    /\ hasClient = FALSE
    /\ issued = <<>>
    /\ call = NoCall
    /\ ast = NoCall
    /\ outcome = NoCall
    /\ nSessions = 0
    /\ tokenizer \in { Tokenizer(input) : input \in TokenizerInputs }
    /\ handed = <<>>
    /\ pending = <<>>

\* The caller calls tokenizer.peek().
CallPeek ==
    /\ Len(handed) < MaxCalls
    /\ LET r == Tokenizer_peek(tokenizer) IN
       /\ tokenizer' = r.tk
       /\ handed' = Append(handed, [op |-> "peek", err |-> r.err,
                                    tok |-> IF r.err = "" THEN r.tok ELSE Eof, i |-> r.tk.i])
    /\ UNCHANGED <<tables, session, hasClient, issued, call, ast, outcome, nSessions, pending>>

\* The caller calls tokenizer.next().
CallNext ==
    /\ Len(handed) < MaxCalls
    /\ LET r == Tokenizer_next(tokenizer) IN
       /\ tokenizer' = r.tk
       /\ handed' = Append(handed, [op |-> "next", err |-> r.err,
                                    tok |-> IF r.err = "" THEN r.tok ELSE Eof, i |-> r.tk.i])
    /\ UNCHANGED <<tables, session, hasClient, issued, call, ast, outcome, nSessions, pending>>

TokenizerNext == CallPeek \/ CallNext

TokenizerSpec == TokenizerInit /\ [][TokenizerNext]_vars

(***************************************************************************)
(* Queries issued without awaiting them.  query() runs up to the first     *)
(* await of the method it dispatches to and returns a promise; what stands *)
(* after an await runs when the store settles the awaited command, in any  *)
(* order among the calls in flight.  Here `issued` is the log of the       *)
(* commands invoked on sessions, and `pending` the calls made: the         *)
(* statement kw, the place pc the call is suspended at, its error, and the *)
(* session `saw` it found active.                                          *)
(***************************************************************************)
MaxPending == 4

EndCommand(kw) == IF kw = "COMMIT" THEN "commitTransaction" ELSE "abortTransaction"

\* query('BEGIN'): _begin has no await and runs to its end.
IssueBegin ==
    /\ Len(pending) < MaxPending
    /\ LET r == _begin(hasClient, session, nSessions) IN
       IF r.err # "" THEN
           /\ pending' = Append(pending, [kw |-> "BEGIN", pc |-> "done", err |-> r.err, saw |-> 0])
           /\ UNCHANGED <<session, nSessions, issued>>
       ELSE
           /\ r.nSessions <= MaxSessions
           /\ pending' = Append(pending, [kw |-> "BEGIN", pc |-> "done", err |-> "", saw |-> 0])
           /\ session' = r.session
           /\ nSessions' = r.nSessions
           /\ issued' = issued \o r.cmds
    /\ UNCHANGED <<tables, hasClient, call, ast, outcome, tokenizer, handed>>

\* query('COMMIT') or query('ROLLBACK') up to the first await: the test of
\* this.session and the call of commitTransaction() or abortTransaction().
IssueEnd(kw) ==
    /\ Len(pending) < MaxPending
    /\ IF session = 0 THEN
           /\ pending' = Append(pending, [kw |-> kw, pc |-> "done",
                                          err |-> "No active transaction", saw |-> 0])
           /\ UNCHANGED issued
       ELSE
           /\ pending' = Append(pending, [kw |-> kw, pc |-> "ending", err |-> "", saw |-> session])
           /\ issued' = Append(issued, [cmd |-> EndCommand(kw), session |-> session])
    /\ UNCHANGED <<tables, session, hasClient, call, ast, outcome, nSessions, tokenizer, handed>>

\* The store has settled the commit or abort of call k: the call goes on to
\* this.session.endSession(), reading this.session anew.
AfterEnd(k) ==
    /\ k \in 1..Len(pending)
    /\ pending[k].pc = "ending"
    /\ IF session = 0 THEN
           /\ pending' = [pending EXCEPT ![k].pc = "done",
                               ![k].err = "TypeError: Cannot read properties of null (reading 'endSession')"]
           /\ UNCHANGED issued
       ELSE
           /\ pending' = [pending EXCEPT ![k].pc = "closing"]
           /\ issued' = Append(issued, [cmd |-> "endSession", session |-> session])
    /\ UNCHANGED <<tables, session, hasClient, call, ast, outcome, nSessions, tokenizer, handed>>

\* The store has settled the endSession of call k: this.session = null, and
\* the call returns.
AfterClose(k) ==
    /\ k \in 1..Len(pending)
    /\ pending[k].pc = "closing"
    /\ session' = 0
    /\ pending' = [pending EXCEPT ![k].pc = "done"]
    /\ UNCHANGED <<tables, hasClient, issued, call, ast, outcome, nSessions, tokenizer, handed>>

ConcurrentNext ==
    \/ IssueBegin
    \/ \E kw \in {"COMMIT", "ROLLBACK"} : IssueEnd(kw)
    \/ \E k \in 1..MaxPending : AfterEnd(k)
    \/ \E k \in 1..MaxPending : AfterClose(k)

ConcurrentSpec == Init /\ [][ConcurrentNext]_vars

(***************************************************************************)
(* Properties.  They are stated over a call that has run to its end: call  *)
(* holds what the caller passed, ast what the parser returned, outcome the *)
(* Error thrown or the binder afterwards, issued the commands sent.        *)
(***************************************************************************)
Returned == call # NoCall
Parsed == Returned /\ ast.err = ""
Succeeded == Returned /\ outcome.err = ""
SelectParsed == Parsed /\ ast.n.type = "SELECT"
SelectDone == Succeeded /\ ast.n.type = "SELECT"

IsKW(tok, kw) == tok.type = "ident" /\ ToUpperCase(tok.value) = kw

\* The operator each stage of a pipeline applies.
StageKinds(pipeline) == [k \in 1..Len(pipeline) |-> Keys(pipeline[k])[1]]

\* The value under the only key of a one-key document.
OnlyValue(doc) == doc.v[1][2]

\* The k-th smallest member of a set of token positions.
Nth(S, k) == CHOOSE i \in S : Cardinality({j \in S : j < i}) = k - 1

ClauseKeywords ==
    {"WHERE", "GROUP", "HAVING", "ORDER", "LIMIT", "OFFSET", "JOIN", "INNER", "LEFT"}

\* A SELECT whose FROM names a table and goes straight on to a clause.
BareTableThenClause(sql) ==
    /\ IsKW(sql[1], "SELECT")
    /\ \E i \in 2..(Len(sql) - 2) :
          /\ IsKW(sql[i], "FROM")
          /\ sql[i + 1].type = "ident"
          /\ sql[i + 2].type = "ident"
          /\ ToUpperCase(sql[i + 2].value) \in ClauseKeywords

\* C1: when the FROM table of a SELECT is written without alias and directly
\* followed by a clause keyword, the statement parses, the table has no
\* alias and the keyword's clause is read; SELECT * FROM users WHERE age > 25
\* ORDER BY name ASC LIMIT 10 is lowered to a filter, a sort and a limit.
C1_KeywordStartsClause ==
    (Returned /\ BareTableThenClause(call.sql)) =>
        /\ ast.err = ""
        /\ ast.n.from.alias = JSNull
        /\ (call.sql = Scenario1 /\ "users" \in DOMAIN tables) =>
              /\ outcome.err = ""
              /\ StageKinds(issued[1].pipeline) = <<"$match", "$sort", "$limit">>

\* C2: the FROM after the last select item is never taken as its alias: no
\* SELECT fails for want of FROM after a select list that FROM follows, and
\* SELECT name, age FROM users WHERE city = 'New York' parses to the two
\* un-aliased columns and is lowered to a filter and a projection of name, age.
C2_FromIsNotAnAlias ==
    (Returned /\ IsKW(call.sql[1], "SELECT")
              /\ \E i \in 2..Len(call.sql) : IsKW(call.sql[i], "FROM")) =>
        /\ ast.err # "Expected FROM"
        /\ ast.err = "" => \A k \in 1..Len(ast.n.columns) :
                               \/ "alias" \notin DOMAIN ast.n.columns[k]
                               \/ ast.n.columns[k].alias # Str("FROM")
        /\ (call.sql = Scenario2 /\ "users" \in DOMAIN tables) =>
              /\ outcome.err = ""
              /\ Len(ast.n.columns) = 2
              /\ \A k \in 1..2 : ast.n.columns[k].alias = JSNull
              /\ StageKinds(issued[1].pipeline) = <<"$match", "$project">>
              /\ Keys(OnlyValue(issued[1].pipeline[2])) = <<"name", "age">>

\* The positions of the JOIN keywords of a statement, and whether the one at
\* i is written LEFT JOIN or LEFT OUTER JOIN.
JoinsWritten(sql) == {i \in 1..Len(sql) : IsKW(sql[i], "JOIN")}
WrittenLeft(sql, i) ==
    \/ i > 1 /\ IsKW(sql[i - 1], "LEFT")
    \/ i > 2 /\ IsKW(sql[i - 1], "OUTER") /\ IsKW(sql[i - 2], "LEFT")
LookupsAt(pipeline) == {k \in 1..Len(pipeline) : StageKinds(pipeline)[k] = "$lookup"}

\* C3: a SELECT that succeeds, its FROM table not directly followed by a
\* clause keyword, has one $lookup per join written, each directly followed
\* by its $unwind, which preserves null and empty exactly when the join is
\* written LEFT JOIN or LEFT OUTER JOIN.
C3_JoinStagePairs ==
    (SelectDone /\ ~BareTableThenClause(call.sql)) =>
        LET pl == issued[1].pipeline
            js == JoinsWritten(call.sql)
        IN  /\ Cardinality(LookupsAt(pl)) = Cardinality(js)
            /\ \A n \in 1..Cardinality(js) :
                  LET k == Nth(LookupsAt(pl), n) IN
                  /\ k < Len(pl)
                  /\ StageKinds(pl)[k + 1] = "$unwind"
                  /\ Get(OnlyValue(pl[k + 1]), "preserveNullAndEmptyArrays")
                        = Bool(WrittenLeft(call.sql, Nth(js, n)))

\* The number of `?` markers written before token position at.
MarkersBefore(sql, at) == Cardinality({i \in 1..(at - 1) : sql[i].type = "param_pos"})

\* No `?` of the statement was resolved more than once.
EachMarkerOnce ==
    \A j, k \in 1..Len(outcome.trace) :
        outcome.trace[j].at = outcome.trace[k].at => j = k

\* C4: in a call that succeeds and resolves no `?` twice, every `?` resolved
\* receives the positional value whose index is the number of `?` written
\* before it in the statement.
C4_PositionalInSourceOrder ==
    (Succeeded /\ EachMarkerOnce) =>
        \A k \in 1..Len(outcome.trace) :
            outcome.trace[k].idx = MarkersBefore(call.sql, outcome.trace[k].at)

\* C5: WHERE age BETWEEN ? AND ? with at least two positional values succeeds,
\* consumes exactly two of them and filters on {$gte: first, $lte: second};
\* with literal bounds it consumes none and filters on the two literals.
C5_BetweenBindsEachBoundOnce ==
    (Returned /\ "users" \in DOMAIN tables) =>
        /\ (call.sql = SelectBetween /\ Len(call.positional) >= 2) =>
              /\ outcome.err = ""
              /\ outcome.posIndex = 2
              /\ StageKinds(issued[1].pipeline) = <<"$match">>
              /\ OnlyValue(OnlyValue(issued[1].pipeline[1]))
                    = D2("$gte", call.positional[1], "$lte", call.positional[2])
        /\ call.sql = SelectBetweenLit =>
              /\ outcome.err = ""
              /\ outcome.posIndex = 0
              /\ OnlyValue(OnlyValue(issued[1].pipeline[1]))
                    = D2("$gte", Num(18), "$lte", Num(65))

\* C6: when the left side of HAVING is an aggregate call of the select list,
\* the $match after the $group is keyed by the name the $group gave that
\* aggregate: the alias of the select item, or the default name without one.
C6_HavingKeyedAsGrouped ==
    (SelectDone /\ Len(ast.n.groupBy) > 0 /\ ast.n.having # JSNull
                /\ TypeOf(ast.n.having) = "Binary"
                /\ TypeOf(ast.n.having.left) = "Call") =>
        \A c \in 1..Len(ast.n.columns) :
            ast.n.columns[c].expr = ast.n.having.left =>
                \E k \in 1..(Len(issued[1].pipeline) - 1) :
                    LET group == issued[1].pipeline[k]
                        match == issued[1].pipeline[k + 1]
                    IN  /\ Keys(group) = <<"$group">>
                        /\ Keys(match) = <<"$match">>
                        /\ Len(Keys(OnlyValue(match))) = 1
                        /\ HasKey(OnlyValue(group), Keys(OnlyValue(match))[1])
                        /\ ast.n.columns[c].alias # JSNull =>
                              Keys(OnlyValue(match))[1] = ast.n.columns[c].alias.v

\* The names a $group stage produces: the GROUP BY fields and the aggregates
\* of the select list, under their alias or default name.
GroupedNames(a) ==
    { a.groupBy[k].name : k \in 1..Len(a.groupBy) }
        \cup { IF a.columns[k].alias # JSNull THEN a.columns[k].alias.v
               ELSE ToLowerCase(a.columns[k].expr.name) :
               k \in { j \in 1..Len(a.columns) :
                         /\ TypeOf(a.columns[j].expr) = "Call"
                         /\ ToUpperCase(a.columns[j].expr.name)
                               \in {"COUNT", "SUM", "AVG", "MIN", "MAX"} } }

\* C7: a grouped SELECT whose HAVING compares a field that is neither a GROUP
\* BY field nor the name of an aggregate of the select list fails, and no
\* command is sent to the store.
C7_HavingUnknownFieldFails ==
    (SelectParsed /\ Len(ast.n.groupBy) > 0 /\ ast.n.having # JSNull
                  /\ TypeOf(ast.n.having) = "Binary"
                  /\ TypeOf(ast.n.having.left) = "Field"
                  /\ ast.n.having.left.name \notin GroupedNames(ast.n)) =>
        /\ outcome.err # ""
        /\ issued = <<>>

\* C8: an UPDATE or DELETE whose WHERE compares an unqualified field f with a
\* value sends a filter whose only key is f: name for UPDATE products SET
\* price = 1150 WHERE name = 'Laptop', category for DELETE FROM products
\* WHERE category = 'Electronics'.
C8_FilterKeyedByField ==
    (Succeeded /\ ast.n.type \in {"UPDATE", "DELETE"} /\ ast.n.where # JSNull
               /\ TypeOf(ast.n.where) = "Binary"
               /\ ast.n.where.op \notin {"AND", "OR"}
               /\ TypeOf(ast.n.where.left) = "Field"
               /\ "table" \notin DOMAIN ast.n.where.left) =>
        /\ Keys(issued[1].filter) = <<ast.n.where.left.name>>
        /\ call.sql = Scenario4 =>
              /\ issued[1].filter = D1("name", Str("Laptop"))
              /\ issued[1].update = D1("$set", D1("price", Num(1150)))
        /\ call.sql = Scenario5 => issued[1].filter = D1("category", Str("Electronics"))

\* The stages _execSelect emits for a parsed SELECT, by the clauses it has.
StagesOf(a) ==
    (IF a.where # JSNull THEN <<"$match">> ELSE <<>>)
        \o [k \in 1..(2 * Len(a.joins)) |-> IF k % 2 = 1 THEN "$lookup" ELSE "$unwind"]
        \o (IF Len(a.groupBy) > 0
            THEN <<"$group">> \o (IF a.having # JSNull THEN <<"$match">> ELSE <<>>)
                     \o <<"$project">>
            ELSE IF Len(a.columns) = 1 /\ TypeOf(a.columns[1].expr) = "All" THEN <<>>
            ELSE <<"$project">>)
        \o (IF Len(a.orderBy) > 0 THEN <<"$sort">> ELSE <<>>)
        \o (IF a.offset # JSNull THEN <<"$skip">> ELSE <<>>)
        \o (IF a.limit # JSNull THEN <<"$limit">> ELSE <<>>)

\* The keyword a stage comes from.
ClauseOf(kind) ==
    CASE kind = "$lookup" -> "JOIN"
      [] kind = "$unwind" -> "JOIN"
      [] kind = "$group" -> "GROUP"
      [] kind = "$sort" -> "ORDER"
      [] kind = "$skip" -> "OFFSET"
      [] kind = "$limit" -> "LIMIT"
      [] OTHER -> ""

\* C9: the pipeline of a SELECT that succeeds is, in this order: the WHERE
\* filter, a $lookup and its $unwind per join, then with GROUP BY the $group,
\* the HAVING filter and the re-projection, without it the projection of the
\* select list, then $sort, $skip, $limit; each only for a clause the
\* statement has, and nothing else.
C9_StageOrder ==
    SelectDone =>
        LET kinds == StageKinds(issued[1].pipeline) IN
        /\ Len(issued) = 1
        /\ issued[1].cmd = "aggregate"
        /\ kinds = StagesOf(ast.n)
        /\ \A k \in 1..Len(kinds) :
              /\ ClauseOf(kinds[k]) # "" =>
                    \E i \in 1..Len(call.sql) : IsKW(call.sql[i], ClauseOf(kinds[k]))
              /\ kinds[k] = "$match" =>
                    \E i \in 1..Len(call.sql) :
                        IsKW(call.sql[i], "WHERE") \/ IsKW(call.sql[i], "HAVING")

\* A SELECT with every clause has succeeded, with a stage of every kind.
C9_EveryStage ==
    /\ SelectDone
    /\ StageKinds(issued[1].pipeline)
          = <<"$match", "$lookup", "$unwind", "$group", "$match", "$project",
              "$sort", "$skip", "$limit">>

\* C10: a named marker whose name is not in the named parameters, or is there
\* with the value undefined, makes the call fail as a missing parameter, and
\* any other value, null included, is the value bound; a `?` with no
\* positional value left makes the call fail, otherwise it is bound to the
\* value supplied.
C10_MissingParameterFails ==
    Returned =>
        /\ \A name \in {"country", "toString"} :
              (call.sql = SelectNamed(name) /\ "users" \in DOMAIN tables) =>
                  IF ~HasKey(call.named, name) \/ Get(call.named, name) = JSUndefined
                  THEN outcome.err = "Missing named param :" \o name
                  ELSE /\ outcome.err = ""
                       /\ OnlyValue(OnlyValue(issued[1].pipeline[1])) = Get(call.named, name)
        /\ (call.sql = DeletePos /\ "products" \in DOMAIN tables) =>
              IF Len(call.positional) = 0
              THEN outcome.err = "Not enough positional params"
              ELSE /\ outcome.err = ""
                   /\ OnlyValue(issued[1].filter) = D1("$lt", call.positional[1])

\* Whether the keyword kw is written in a statement.
HasKW(sql, kw) == \E i \in 1..Len(sql) : IsKW(sql[i], kw)

DmlDone == Succeeded /\ ast.n.type \in {"UPDATE", "DELETE"}

ValueWritten(node) ==
    CASE node.type = "Number" -> node.value
      [] node.type = "String" -> Str(node.value)
      [] node.type = "Boolean" -> Bool(node.value)
      [] node.type = "Null" -> JSNull
      [] node.type = "Param" ->
            IF node.mode = "pos" THEN call.positional[MarkersBefore(call.sql, node.at) + 1]
            ELSE Get(call.named, node.name)

InsertValuesDone == Succeeded /\ ast.n.type = "INSERT" /\ "values" \in DOMAIN ast.n
\* Whether every VALUES row has as many values as the statement declares columns.
RowsMatchColumns == \A r \in 1..Len(ast.n.values) : Len(ast.n.values[r]) = Len(ast.n.columns)

\* C12: an INSERT ... (columns) VALUES ... whose rows each have one value per
\* column sends one insertMany with one document per row, in row order; each
\* document has exactly the declared columns, in order, and column i holds the
\* value the row's i-th entry stands for.
C12_OneDocumentPerRow ==
    (InsertValuesDone /\ RowsMatchColumns) =>
        /\ Len(issued) = 1
        /\ issued[1].cmd = "insertMany"
        /\ Len(issued[1].docs) = Len(ast.n.values)
        /\ \A r \in 1..Len(ast.n.values) :
              /\ Keys(issued[1].docs[r]) = [i \in 1..Len(ast.n.columns) |-> ast.n.columns[i].name]
              /\ \A i \in 1..Len(ast.n.columns) :
                    issued[1].docs[r].v[i][2] = ValueWritten(ast.n.values[r][i])
\* Two different rows have been inserted as two documents.
C12_TwoRows ==
    /\ InsertValuesDone /\ RowsMatchColumns
    /\ Len(issued[1].docs) = 2
    /\ issued[1].docs[1] = D2("name", Str("Laptop"), "price", Num(1200))
    /\ issued[1].docs[2] = D2("name", Num(101), "price", Num(102))

\* C13: an INSERT whose VALUES has a row with fewer or more values than the
\* statement declares columns fails, and no command is sent.
C13_RaggedRowFails ==
    (Parsed /\ ast.n.type = "INSERT" /\ "values" \in DOMAIN ast.n /\ ~RowsMatchColumns) =>
        /\ outcome.err # ""
        /\ issued = <<>>

\* A step in which query() runs the one-word statement kw to its end.
Ran(kw) == call = NoCall /\ call' # NoCall /\ call'.sql = <<Id(kw)>>
Failed == outcome'.err # ""

\* C14: BEGIN succeeds exactly when there is a client and no transaction is
\* active, and then one transaction is active; COMMIT and ROLLBACK succeed
\* exactly when a transaction is active, and then none is; a transaction
\* statement that fails leaves the session as it was.
C14_TransactionSteps ==
    [][ /\ Ran("BEGIN") =>
              /\ ~Failed <=> (hasClient /\ session = 0)
              /\ IF Failed THEN session' = session ELSE session' # 0
        /\ (Ran("COMMIT") \/ Ran("ROLLBACK")) =>
              /\ ~Failed <=> session # 0
              /\ IF Failed THEN session' = session ELSE session' = 0
      ]_vars
\* A second transaction has been started after the first one ended.
C14_SecondTransaction ==
    /\ Succeeded /\ call.sql = <<Id("BEGIN")>>
    /\ session = 2

\* The table names written in a statement: the identifier after FROM, JOIN,
\* INTO or UPDATE.
TablesNamed(sql) ==
    { sql[i + 1].value : i \in { j \in 1..(Len(sql) - 1) :
          /\ \E kw \in {"FROM", "JOIN", "INTO", "UPDATE"} : IsKW(sql[j], kw)
          /\ sql[j + 1].type = "ident" } }
Unregistered(sql) == { t \in TablesNamed(sql) : ToLowerCase(t) \notin DOMAIN tables }

\* C15: a statement that names a table not registered under any spelling of
\* its case fails with the unknown-table error for such a table, and no
\* command is sent.
C15_UnknownTableFails ==
    (Parsed /\ Unregistered(call.sql) # {}) =>
        /\ \E t \in Unregistered(call.sql) : outcome.err = "Unknown table: " \o t
        /\ issued = <<>>

\* The document of the $group stage of a pipeline.
GroupOf(pipeline) ==
    OnlyValue(pipeline[CHOOSE k \in 1..Len(pipeline) : Keys(pipeline[k]) = <<"$group">>])
\* The name under which the $group stage keeps a select item.
GroupedAs(item) == IF item.alias # JSNull THEN item.alias.v ELSE ToLowerCase(item.expr.name)
\* The expression an aggregate's argument compiles to in the statement parsed.
Compiled(arg) ==
    Run("toMongoExpr", <<arg, ast.n.from, ast.n.joins, ParamBinder(call.named, call.positional),
                         JSUndefined>>).v
Reducer(name) ==
    CASE name = "SUM" -> "$sum" [] name = "AVG" -> "$avg" [] name = "MIN" -> "$min"
      [] name = "MAX" -> "$max"
AggregateItems ==
    { k \in 1..Len(ast.n.columns) :
        /\ TypeOf(ast.n.columns[k].expr) = "Call"
        /\ ToUpperCase(ast.n.columns[k].expr.name) \in {"COUNT", "SUM", "AVG", "MIN", "MAX"} }
GroupedDone == SelectDone /\ Len(ast.n.groupBy) > 0

\* C16: in the $group stage COUNT(*) and COUNT() are {$sum: 1}, COUNT(x) is
\* {$sum: {$cond: [{$gt: [x, null]}, 1, 0]}} over the compiled argument x, and
\* SUM, AVG, MIN, MAX are $sum, $avg, $min, $max of the compiled argument.
C16_Accumulators ==
    GroupedDone =>
        \A k \in AggregateItems :
            LET e == ast.n.columns[k].expr
                name == ToUpperCase(e.name)
                acc == Get(GroupOf(issued[1].pipeline), GroupedAs(ast.n.columns[k]))
            IN  IF name = "COUNT" THEN
                    IF e.args = <<>> \/ TypeOf(e.args[1]) = "All"
                    THEN acc = D1("$sum", Num(1))
                    ELSE acc = D1("$sum", D1("$cond",
                                 Arr(<<D1("$gt", Arr(<<Compiled(e.args[1]), JSNull>>)),
                                       Num(1), Num(0)>>)))
                ELSE acc = D1(Reducer(name), Compiled(e.args[1]))
\* COUNT(u.total) has been compiled in a $group stage.
C16_CountOfField ==
    /\ GroupedDone
    /\ \E k \in AggregateItems :
          /\ ToUpperCase(ast.n.columns[k].expr.name) = "COUNT"
          /\ ast.n.columns[k].expr.args = <<[type |-> "Field", table |-> "u", name |-> "total"]>>
          /\ Keys(OnlyValue(Get(GroupOf(issued[1].pipeline), "spent"))) = <<"$cond">>

\* The filter a successful call sent: of its $match stage or of its write.
FilterSent ==
    IF ast.n.type = "SELECT" THEN OnlyValue(issued[1].pipeline[1]) ELSE issued[1].filter
\* The value a token of the statement stands for.
TokenValue(sql, j) ==
    CASE sql[j].type = "string" -> Str(sql[j].value)
      [] sql[j].type = "number" -> NumberOf(sql[j].value)
      [] sql[j].type = "param_pos" -> call.positional[MarkersBefore(sql, j) + 1]
      [] sql[j].type = "param_named" -> Get(call.named, sql[j].value)
\* The values written in the parenthesised list that opens at token i.
ListWritten(sql, i) ==
    LET close == CHOOSE j \in (i + 1)..Len(sql) :
                     /\ sql[j] = Op(")")
                     /\ \A k \in (i + 1)..(j - 1) : sql[k] # Op(")")
        at == { j \in (i + 1)..(close - 1) : sql[j].type # "op" }
    IN  [k \in 1..Cardinality(at) |-> TokenValue(sql, Nth(at, k))]
\* Whether the call passes a positional value for every `?` of the statement.
EnoughPositional ==
    Len(call.positional) >= Cardinality({j \in 1..Len(call.sql) : call.sql[j].type = "param_pos"})

\* C17: a statement on a registered table whose WHERE is field IN (v1, ..., vn)
\* or field NOT IN (v1, ..., vn) succeeds, and its filter holds under one key
\* {$in: [v1, ..., vn]}, or {$nin: [v1, ..., vn]} for NOT IN, of the bound values.
C17_MembershipFilters ==
    (Returned /\ HasKW(call.sql, "IN") /\ Unregistered(call.sql) = {} /\ EnoughPositional) =>
        LET i == CHOOSE j \in 1..Len(call.sql) : IsKW(call.sql[j], "IN")
            operator == IF IsKW(call.sql[i - 1], "NOT") THEN "$nin" ELSE "$in"
        IN  /\ Succeeded
            /\ Len(Keys(FilterSent)) = 1
            /\ OnlyValue(FilterSent) = D1(operator, Arr(ListWritten(call.sql, i + 1)))

\* The comparison operators of a WHERE leaf and the predicate each stands for.
LeafOps == {"=", "!=", "<>", ">", ">=", "<", "<=", "IS", "IS NOT"}
Predicate(op, val) ==
    CASE op = "=" -> val
      [] op \in {"!=", "<>"} -> D1("$ne", val)
      [] op = ">" -> D1("$gt", val)
      [] op = ">=" -> D1("$gte", val)
      [] op = "<" -> D1("$lt", val)
      [] op = "<=" -> D1("$lte", val)
      [] op = "IS" -> JSNull
      [] op = "IS NOT" -> D1("$ne", JSNull)
\* A literal, a `?`, or a :name the caller passes a value for.
IsValue(node) ==
    /\ TypeOf(node) \in {"Number", "String", "Boolean", "Null", "Param"}
    /\ (TypeOf(node) = "Param" /\ node.mode = "named") => HasKey(call.named, node.name)
\* A comparison of a field with a value, or an IS [NOT] NULL.
IsLeaf(e) ==
    /\ TypeOf(e) = "Binary" /\ e.op \in LeafOps /\ TypeOf(e.left) = "Field"
    /\ e.op \in {"IS", "IS NOT"} \/ IsValue(e.right)
\* Whether an expression is built from such leaves with AND, OR and NOT only.
RECURSIVE IsLeafTree(_)
IsLeafTree(e) ==
    IF TypeOf(e) = "Binary" /\ e.op \in {"AND", "OR"} THEN IsLeafTree(e.left) /\ IsLeafTree(e.right)
    ELSE IF TypeOf(e) = "Unary" THEN e.op = "NOT" /\ IsLeafTree(e.expr)
    ELSE IsLeaf(e)
\* The filter F(e) of such an expression, unqualified fields read in table dt.
RECURSIVE F(_, _)
F(e, dt) ==
    IF TypeOf(e) = "Unary" THEN D1("$nor", Arr(<<F(e.expr, dt)>>))
    ELSE IF e.op = "AND" THEN D1("$and", Arr(<<F(e.left, dt), F(e.right, dt)>>))
    ELSE IF e.op = "OR" THEN D1("$or", Arr(<<F(e.left, dt), F(e.right, dt)>>))
    ELSE D1(qualifyField(e.left, dt).path,
            Predicate(e.op, IF e.op \in {"IS", "IS NOT"} THEN JSNull ELSE ValueWritten(e.right)))
\* The table an unqualified field of the statement's WHERE belongs to.
DefaultTable ==
    CASE ast.n.type = "SELECT" ->
            IF ast.n.from.alias # JSNull THEN ast.n.from.alias.v ELSE ast.n.from.name
      [] ast.n.type = "UPDATE" -> ast.n.table.name
      [] ast.n.type = "DELETE" -> ast.n.from.name
HasWhere == Parsed /\ ast.n.type \in {"SELECT", "UPDATE", "DELETE"} /\ ast.n.where # JSNull
\* No `?` is written before the WHERE keyword.
MarkersAfterWhere ==
    \A j \in 1..Len(call.sql) :
        call.sql[j].type = "param_pos" => \E i \in 1..(j - 1) : IsKW(call.sql[i], "WHERE")
\* A comparison that is no leaf: its operator is none of the WHERE operators,
\* or its left side is not a field.
RECURSIVE HasBadLeaf(_)
HasBadLeaf(e) ==
    IF TypeOf(e) = "Binary" /\ e.op \in {"AND", "OR"} THEN HasBadLeaf(e.left) \/ HasBadLeaf(e.right)
    ELSE IF TypeOf(e) = "Unary" THEN HasBadLeaf(e.expr)
    ELSE /\ TypeOf(e) = "Binary"
         /\ \/ e.op \notin LeafOps \cup {"IN", "NOT IN", "LIKE", "BETWEEN"}
            \/ TypeOf(e.left) # "Field"

\* C18: a WHERE built from comparisons of a field with AND, OR and NOT is sent
\* as F of it: key: value for =, $ne for != and <>, $gt $gte $lt $lte for
\* > >= < <=, null and {$ne: null} for IS NULL and IS NOT NULL, {$and: [F(x),
\* F(y)]}, {$or: [F(x), F(y)]} and {$nor: [F(x)]}; a WHERE holding another
\* operator or a comparison whose left side is no field fails and sends nothing.
C18_FilterOfWhere ==
    /\ (HasWhere /\ Succeeded /\ IsLeafTree(ast.n.where) /\ MarkersAfterWhere) =>
            FilterSent = F(ast.n.where, DefaultTable)
    /\ (HasWhere /\ HasBadLeaf(ast.n.where)) =>
            outcome.err # "" /\ issued = <<>>
\* A conjunction of two comparisons has been sent as $and of their filters.
C18_Conjunction ==
    /\ HasWhere /\ Succeeded /\ ast.n.type = "DELETE"
    /\ FilterSent = D1("$and", Arr(<<D1("products.age", Num(1)),
                                      D1("products.price", D1("$gt", Num(2)))>>))
\* A comparison with a literal on the left has been refused.
C18_LiteralOnTheLeft ==
    /\ HasWhere /\ HasBadLeaf(ast.n.where) /\ TypeOf(ast.n.where) = "Binary"
    /\ TypeOf(ast.n.where.left) = "String"
    /\ outcome.err = "Unsupported WHERE clause"

\* The regular expression of a LIKE pattern: metacharacters escaped, % as .*,
\* _ as ., between ^ and $.
RegexOf(pattern) ==
    CASE pattern = "A%" -> "^A.*$"
      [] pattern = "A_B" -> "^A.B$"
      [] pattern = "a.b%" -> "^a\\.b.*$"
LikeDone ==
    /\ HasWhere /\ Succeeded
    /\ TypeOf(ast.n.where) = "Binary" /\ ast.n.where.op = "LIKE"
    /\ TypeOf(ast.n.where.left) = "Field" /\ TypeOf(ast.n.where.right) = "String"

\* C19: field LIKE 'p' is sent under one key as {$regex: r, $options: "i"},
\* r being p with its metacharacters escaped, each % replaced by .* and each _
\* by ., between ^ and $: ^A.*$ for 'A%', ^A.B$ for 'A_B'.
C19_LikeRegex ==
    LikeDone =>
        /\ Len(Keys(FilterSent)) = 1
        /\ OnlyValue(FilterSent)
              = D2("$regex", Str(RegexOf(ast.n.where.right.value)), "$options", Str("i"))
\* A pattern holding a metacharacter has been sent with it escaped.
C19_EscapedDot ==
    /\ LikeDone /\ ast.n.where.right.value = "a.b%"
    /\ Get(OnlyValue(FilterSent), "$regex") = Str("^a\\.b.*$")

\* C20: a WHERE expression parses to the tree its operators denote with OR
\* below AND below prefix NOT below comparison below + - below * / below
\* unary minus, and operators of one level grouping from the left: OR(a = 1,
\* AND(b = 2, c = 3)) for a = 1 OR b = 2 AND c = 3, AND(NOT(a = 1), b = 2)
\* for NOT a = 1 AND b = 2, +(a, *(b, c)) for a + b * c.
C20_Precedence ==
    \A k \in 1..Len(PrecedenceCases) :
        (Returned /\ call.sql = PrecedenceStatement(k)) =>
            /\ Parsed
            /\ ast.n.where = PrecedenceCases[k][2]
\* a = 1 OR b = 2 AND c = 3 has been parsed with AND under OR.
C20_AndUnderOr ==
    /\ Parsed /\ call.sql = PrecedenceStatement(1)
    /\ ast.n.where.op = "OR"
    /\ ast.n.where.right.op = "AND"

\* The tokens next() returns when it alone is called k times on a text from
\* i consumed characters; a call that throws returns none.
RECURSIVE NextAlone(_, _, _)
NextAlone(s, i, k) ==
    IF k = 0 THEN <<>>
    ELSE LET r == scan(s, i) IN
         (IF r.err = "" THEN <<r.tok>> ELSE <<>>) \o NextAlone(s, r.i, k - 1)
\* The tokens the next() calls made so far returned, in order.
TokensOfNext ==
    LET Returned1(h) == h.op = "next" /\ h.err = ""
        hs == SelectSeq(handed, Returned1)
    IN  [k \in 1..Len(hs) |-> hs[k].tok]
SameToken(a, b) == a.type = b.type /\ ("value" \in DOMAIN a => a.value = b.value)
IsPrefix(a, b) == Len(a) <= Len(b) /\ \A k \in 1..Len(a) : SameToken(a[k], b[k])

\* C21: a peek() that returns a token is followed by the same token from the
\* next call, peek() or next(); consecutive peek() calls leave the input
\* position where it was; the tokens next() returns are those it returns with
\* no peek() between; after end-of-input every call returns end-of-input.
C21_PeekThenNext ==
    tokenizer # NoCall =>
        /\ \A k \in 1..(Len(handed) - 1) :
              (handed[k].op = "peek" /\ handed[k].err = "") =>
                  /\ handed[k + 1].err = ""
                  /\ SameToken(handed[k + 1].tok, handed[k].tok)
                  /\ handed[k + 1].op = "peek" => handed[k + 1].i = handed[k].i
        /\ IsPrefix(TokensOfNext, NextAlone(tokenizer.input, 0, MaxCalls))
        /\ \A j, k \in 1..Len(handed) :
              (j < k /\ handed[j].err = "" /\ handed[j].tok.type = "eof") =>
                  handed[k].err = "" /\ handed[k].tok.type = "eof"
\* Two peeks, then two next() calls that returned different tokens.
C21_PeekPeekNextNext ==
    /\ tokenizer # NoCall /\ Len(handed) >= 4
    /\ handed[1].op = "peek" /\ handed[2].op = "peek"
    /\ handed[3].op = "next" /\ handed[4].op = "next"
    /\ SameToken(handed[3].tok, Id("a")) /\ SameToken(handed[4].tok, Op(">="))

(***************************************************************************)
(* Characters the tokenizer rejects                                         *)
(***************************************************************************)
BadAt(sql) == { k \in 1..Len(sql) : sql[k].type = "error" }
FirstBad(sql) == CHOOSE k \in BadAt(sql) : \A j \in BadAt(sql) : k <= j

\* C22: a statement holding, outside strings and comments, a character no
\* token starts with fails with the tokenizer's error for the first such
\* character, wherever the character stands, and no command is issued.
C22_BadCharacterFails ==
    (Returned /\ BadAt(call.sql) # {}) =>
        /\ outcome.err = LexError(call.sql[FirstBad(call.sql)])
        /\ issued = <<>>

(***************************************************************************)
(* Letter case of keywords                                                  *)
(***************************************************************************)
\* The words the parser compares upper-cased.
Keywords ==
    {"SELECT", "INSERT", "UPDATE", "DELETE", "BEGIN", "COMMIT", "ROLLBACK", "FROM", "JOIN",
     "INNER", "LEFT", "ON", "WHERE", "GROUP", "BY", "HAVING", "ORDER", "LIMIT", "OFFSET",
     "AS", "ASC", "DESC", "INTO", "VALUES", "SET", "IS", "NOT", "NULL", "IN", "BETWEEN",
     "AND", "LIKE", "OR", "TRUE", "FALSE"}

\* The statement with every keyword written in lower case.
LowerKeywords(sql) ==
    [k \in 1..Len(sql) |->
        IF sql[k].type = "ident" /\ ToUpperCase(sql[k].value) \in Keywords
        THEN Id(ToLowerCase(sql[k].value)) ELSE sql[k]]

\* C23: a statement that parses yields the same AST when its keywords are
\* written in another letter case (a statement here is its sequence of tokens,
\* the same for every layout of the whitespace between them).
C23_KeywordCase ==
    (Returned /\ ast.err = "") => Run("parseStatement", <<LowerKeywords(call.sql)>>) = ast

(***************************************************************************)
(* Join conditions                                                          *)
(***************************************************************************)
\* The $lookup stages of a pipeline, in order.
Lookups(pipeline) == SelectSeq(pipeline, LAMBDA st : Keys(st)[1] = "$lookup")

\* The side of the condition `on` that is a field of the table known as t.
SideOf(on, t) == IF on.left.table = t THEN on.left ELSE on.right

\* A join condition between a field of the table known as m and a field of
\* the table known as a, in either order.
Relates(on, m, a) ==
    /\ TypeOf(on.left) = "Field" /\ TypeOf(on.right) = "Field"
    /\ "table" \in DOMAIN on.left /\ "table" \in DOMAIN on.right
    /\ {on.left.table, on.right.table} = {m, a}
    /\ m # a

\* C24: for a join whose condition relates a field of the primary table and a
\* field of the joined table, the lookup stage has the primary table's field
\* as localField and the joined table's field as foreignField, whichever is
\* written first.
C24_LookupFields ==
    SelectDone =>
        \A k \in 1..Len(ast.n.joins) :
            LET j == ast.n.joins[k]
                m == aliasOrName(ast.n.from)
                a == aliasOrName(j.table)
                lookup == OnlyValue(Lookups(issued[1].pipeline)[k])
            IN  Relates(j.on, m, a) =>
                    /\ Get(lookup, "localField") = Str(SideOf(j.on, m).name)
                    /\ Get(lookup, "foreignField") = Str(SideOf(j.on, a).name)

(***************************************************************************)
(* Computed value operands                                                  *)
(***************************************************************************)
\* An operand that is no literal, parameter, list or BETWEEN range.
Computed(node) == TypeOf(node) \in {"Field", "Call", "Binary"}

\* A comparison of a field with a computed operand.
ComputedComparison(e) ==
    /\ e # JSNull /\ TypeOf(e) = "Binary" /\ e.op \in ComparisonOps
    /\ TypeOf(e.left) = "Field" /\ Computed(e.right)

\* C25: a statement that succeeds never sends null for a computed operand: not
\* in the filter of a WHERE comparison, not in the $match of a HAVING
\* comparison, not as the value an UPDATE sets.
C25_NoSilentNull ==
    /\ (Succeeded /\ HasWhere /\ ComputedComparison(ast.n.where)) =>
            FilterSent # D1(qualifyField(ast.n.where.left, DefaultTable).path,
                            Predicate(ast.n.where.op, JSNull))
    /\ (SelectDone /\ ComputedComparison(ast.n.having)) =>
            \A k \in 1..Len(issued[1].pipeline) :
                issued[1].pipeline[k] # D1("$match", D1(projectKey(ast.n.having.left),
                                                       Predicate(ast.n.having.op, JSNull)))
    /\ (Succeeded /\ ast.n.type = "UPDATE") =>
            \A k \in 1..Len(ast.n.set) :
                Computed(ast.n.set[k].value) =>
                    Get(Get(issued[1].update, "$set"), ast.n.set[k].column.name) # JSNull

(***************************************************************************)
(* Tokens after the last clause                                             *)
(***************************************************************************)
\* The parser returned a statement before the end of the token sequence.
TokensLeftOver == Parsed /\ ast.p <= Len(call.sql)

\* C26: a statement is accepted only if the parser consumed all its tokens: a
\* call whose statement has tokens left after the last recognised clause
\* fails, and issues no command.
C26_WholeInputConsumed ==
    /\ Succeeded => ~TokensLeftOver
    /\ (Returned /\ TokensLeftOver) => (outcome.err # "" /\ issued = <<>>)

(***************************************************************************)
(* Group keys                                                               *)
(***************************************************************************)
\* The $project stage of a grouped pipeline.
ProjectOf(pipeline) ==
    OnlyValue(pipeline[CHOOSE k \in 1..Len(pipeline) : Keys(pipeline[k]) = <<"$project">>])

\* The distinct fields of the GROUP BY list: fields of different tables are
\* different fields.
GroupByFields == { ast.n.groupBy[k] : k \in 1..Len(ast.n.groupBy) }

\* C27: the _id of the $group stage has one entry per distinct GROUP BY field,
\* the stage has one accumulator per aggregate call of the select list, and
\* the $project stage emits exactly these: $_id.k for each entry k of _id and
\* 1 for each accumulator.
C27_GroupKeys ==
    GroupedDone =>
        LET group == GroupOf(issued[1].pipeline)
            id == Get(group, "_id")
            project == ProjectOf(issued[1].pipeline)
        IN  /\ Len(id.v) = Cardinality(GroupByFields)
            /\ Len(group.v) = 1 + Cardinality(AggregateItems)
            /\ Len(project.v) = Len(id.v) + Cardinality(AggregateItems)
            /\ \A k \in 1..Len(id.v) : Get(project, id.v[k][1]) = Str("$_id." \o id.v[k][1])
            /\ \A k \in AggregateItems : Get(project, GroupedAs(ast.n.columns[k])) = Num(1)

(***************************************************************************)
(* COMMIT and ROLLBACK issued without awaiting                              *)
(***************************************************************************)
\* The commits and aborts invoked on session s.
EndingsOf(s) ==
    { k \in 1..Len(issued) :
        issued[k].cmd \in {"commitTransaction", "abortTransaction"} /\ issued[k].session = s }

\* The COMMIT and ROLLBACK calls that found session s active.
EndersOf(s) == { k \in 1..Len(pending) : pending[k].saw = s }

\* C28: whatever the interleaving of COMMIT and ROLLBACK calls issued without
\* awaiting, a transaction's session has commitTransaction or abortTransaction
\* invoked on it at most once, at most one call gets past the test for an
\* active transaction (every other one fails with 'No active transaction'),
\* and no call reads a session already cleared.
C28_OneEndPerTransaction ==
    /\ \A s \in 1..MaxSessions : Cardinality(EndingsOf(s)) <= 1
    /\ \A s \in 1..MaxSessions : Cardinality(EndersOf(s)) <= 1
    /\ \A k \in 1..Len(pending) :
          pending[k].err \in {"", "No active transaction", "Transaction already started",
                              "BEGIN requires a Mongo client to create sessions"}

(***************************************************************************)
(* The session passed to store commands                                     *)
(***************************************************************************)
StoreCommands == {"aggregate", "insertMany", "updateMany", "deleteMany"}

\* C29: with each query awaited before the next, a store command issued while
\* a transaction is active, that is after a BEGIN that succeeded and before
\* the next COMMIT or ROLLBACK that succeeds, is passed the session that BEGIN
\* started, and a store command issued while none is active is passed no
\* session.
C29_SessionPassed ==
    Returned =>
        /\ session # 0 => session = nSessions
        /\ \A k \in 1..Len(issued) :
              issued[k].cmd \in StoreCommands =>
                  issued[k].opts = IF session = 0 THEN EmptyObj ELSE D1("session", Num(session))

\* An UPDATE run in the second transaction of the instance.
C29_InSecondTransaction ==
    /\ Succeeded /\ session = 2
    /\ Len(issued) = 1 /\ issued[1].cmd = "updateMany"
    /\ issued[1].opts = D1("session", Num(2))

(***************************************************************************)
(* What a failed call leaves behind                                         *)
(***************************************************************************)
WriteCommands == {"insertMany", "updateMany", "deleteMany"}

\* A step in which query() runs a statement to its end.
RanQuery == call = NoCall /\ call' # NoCall

\* C30: a query() call that fails has sent no insertMany, updateMany or
\* deleteMany and leaves the table registry and the active session as they
\* were (the function table is never assigned after construction); every
\* call binds its first `?` to the first positional value, whatever calls
\* failed before it.
C30_FailedCallFrame ==
    [][ RanQuery =>
          /\ Failed =>
                /\ tables' = tables /\ session' = session /\ nSessions' = nSessions
                /\ \A k \in 1..Len(issued') : issued'[k].cmd \notin WriteCommands
          /\ (~Failed /\ Len(outcome'.trace) > 0) => outcome'.trace[1].idx = 0
      ]_vars

\* An UPDATE of a registered table that fails in a transaction, at its second
\* `?`, the caller having passed one value.
C30_FailedAtSecondMarker ==
    /\ Returned /\ outcome.err = "Not enough positional params"
    /\ ast.err = "" /\ ast.n.type = "UPDATE"
    /\ Len(call.positional) = 1
    /\ session # 0 /\ "products" \in DOMAIN tables
    /\ issued = <<>>

====
